---- MODULE Spec2Model ----
(***************************************************************************)
(* Model of the flight-assistant backend: the validation middleware and    *)
(* the POST /query handler (backend/src/routes/flights.js), the LLM        *)
(* service (analyzeQuestionForMode, generateAnswer, isValidQuestion,       *)
(* sanitizeQuestion) and the flight API service (getAirportSchedule,       *)
(* getDayLabel, processFlightData, isValidAirportCode, getAirportName).    *)
(*                                                                         *)
(* JavaScript strings are tuples of one-character strings, so that         *)
(* includes(), trim(), toLowerCase() and the regular-expression replaces   *)
(* are computed character by character.  JavaScript values are tagged      *)
(* records; objects are records whose DOMAIN is the set of own keys.       *)
(***************************************************************************)
EXTENDS Integers, Sequences, FiniteSets, TLC

VARIABLES
  pc,            \* position of the request in middleware / handler
  req,           \* req.body as received
  body,          \* req.body after the middleware's sanitisation
  now,           \* Date.now()
  startTime,     \* the handler's startTime
  modeAnalysis,  \* the Classifier's return value
  fetch,         \* getAirportSchedule's locals: mode, validDayParam, rawResult
  rawFlightData, \* the Fetcher's return value
  processedData, \* the Aggregator's return value
  thrown,        \* the Error travelling to the handler's catch block
  calls,         \* invocation counters of the collaborators
  trace,         \* order in which the stages ran
  settled,       \* how each awaited upstream call settled
  sent,          \* the HTTP responses written so far
  app,           \* the App component's refs: loading, result, currentStep, loadingMessage
  form,          \* the FlightForm component's refs
  timers,        \* the browser's pending setTimeout callbacks
  clock,         \* the browser's time in milliseconds
  request,       \* the pending apiService.queryFlights call
  emitted,       \* the events FlightForm has emitted
  toast          \* the summary of the last toast.add

server == <<pc, req, body, now, startTime, modeAnalysis, fetch, rawFlightData,
            processedData, thrown, calls, trace, settled, sent>>
browser == <<app, form, timers, clock, request, emitted, toast>>
vars == <<server, browser>>

-----------------------------------------------------------------------------
(* Characters and strings *)

UpperChars ==
  <<"A","B","C","D","E","F","G","H","I","J","K","L","M","N","O","P","Q","R","S","T","U","V","W","X","Y","Z">>
LowerChars ==
  <<"a","b","c","d","e","f","g","h","i","j","k","l","m","n","o","p","q","r","s","t","u","v","w","x","y","z">>
DigitChars ==
  <<"0","1","2","3","4","5","6","7","8","9">>
\* \s of the regular expressions, restricted to the characters the inputs use
WhitespaceChars == {" ", "\t", "\n"}
\* \w of the regular expressions
WordChars ==
  {UpperChars[i] : i \in DOMAIN UpperChars} \cup {LowerChars[i] : i \in DOMAIN LowerChars}
    \cup {DigitChars[i] : i \in DOMAIN DigitChars} \cup {"_"}

Range(s) == {s[i] : i \in DOMAIN s}
SetMin(S) == CHOOSE x \in S : \A y \in S : x <= y
SetMax(S) == CHOOSE x \in S : \A y \in S : x >= y

ToLowerChar(c) ==
  IF \E i \in DOMAIN UpperChars : UpperChars[i] = c
  THEN LowerChars[CHOOSE i \in DOMAIN UpperChars : UpperChars[i] = c]
  ELSE c
ToUpperChar(c) ==
  IF \E i \in DOMAIN LowerChars : LowerChars[i] = c
  THEN UpperChars[CHOOSE i \in DOMAIN LowerChars : LowerChars[i] = c]
  ELSE c
toLowerCase(s) == [i \in 1..Len(s) |-> ToLowerChar(s[i])]
toUpperCase(s) == [i \in 1..Len(s) |-> ToUpperChar(s[i])]

\* the element of a one-element set: Only({F(v) : v \in {e}}) is F(e), with e
\* evaluated once
Only(S) == CHOOSE v \in S : TRUE

\* String.prototype.includes
includes(s, sub) ==
  \E i \in 1..(Len(s) - Len(sub) + 1) : SubSeq(s, i, i + Len(sub) - 1) = sub

\* String.prototype.trim
trim(s) ==
  LET idx == {i \in 1..Len(s) : s[i] \notin WhitespaceChars}
  IN IF idx = {} THEN <<>> ELSE SubSeq(s, SetMin(idx), SetMax(idx))

\* String.prototype.substring(0, n)
substring0(s, n) == IF Len(s) <= n THEN s ELSE SubSeq(s, 1, n)

\* replace(/\s+/g, ' '): every maximal run of whitespace becomes one space
RECURSIVE ReplaceWhitespaceRuns(_, _)
ReplaceWhitespaceRuns(s, i) ==
  IF i > Len(s) THEN <<>>
  ELSE IF s[i] \notin WhitespaceChars THEN <<s[i]>> \o ReplaceWhitespaceRuns(s, i + 1)
  ELSE IF i > 1 /\ s[i - 1] \in WhitespaceChars THEN ReplaceWhitespaceRuns(s, i + 1)
  ELSE <<" ">> \o ReplaceWhitespaceRuns(s, i + 1)

\* replace(/[^\w\s\?\!\.\,\-\(\)]/g, ''): every other character is deleted
SanitizeKept == WordChars \cup WhitespaceChars \cup {"?", "!", ".", ",", "-", "(", ")"}
RECURSIVE RemoveSpecialChars(_, _)
RemoveSpecialChars(s, i) ==
  IF i > Len(s) THEN <<>>
  ELSE IF s[i] \in SanitizeKept THEN <<s[i]>> \o RemoveSpecialChars(s, i + 1)
  ELSE RemoveSpecialChars(s, i + 1)

RECURSIVE Concat(_)
Concat(ss) == IF ss = <<>> THEN <<>> ELSE Head(ss) \o Concat(Tail(ss))

-----------------------------------------------------------------------------
(* JavaScript values *)

JsUndefined == [t |-> "undefined"]
JsNull == [t |-> "null"]
JsNaN == [t |-> "number", nan |-> TRUE]
JsNum(n) == [t |-> "number", nan |-> FALSE, n |-> n]
JsStr(s) == [t |-> "string", s |-> s]
JsBool(b) == [t |-> "boolean", b |-> b]
JsObj(f) == [t |-> "object", f |-> f]
JsArr(a) == [t |-> "array", a |-> a]
EmptyObj == JsObj([k \in {} |-> JsUndefined])

Truthy(v) ==
  CASE v.t = "undefined" -> FALSE
    [] v.t = "null" -> FALSE
    [] v.t = "boolean" -> v.b
    [] v.t = "number" -> ~v.nan /\ v.n # 0
    [] v.t = "string" -> v.s # <<>>
    [] OTHER -> TRUE

\* a || b
Or(a, b) == IF Truthy(a) THEN a ELSE b

\* o?.k, and o.k on a value that is neither null nor undefined
Get(o, k) == IF o.t = "object" /\ k \in DOMAIN o.f THEN o.f[k] ELSE JsUndefined

DigitValue(c) == (CHOOSE i \in DOMAIN DigitChars : DigitChars[i] = c) - 1
RECURSIVE DigitsValue(_)
DigitsValue(s) ==
  IF s = <<>> THEN 0 ELSE 10 * DigitsValue(SubSeq(s, 1, Len(s) - 1)) + DigitValue(s[Len(s)])
IsDigits(s) == s # <<>> /\ \A i \in DOMAIN s : s[i] \in Range(DigitChars)

\* Number(string) for blank strings and decimal integer literals; every other
\* string of the input sets is not a numeric literal and converts to NaN
StringToNumber(s) ==
  LET t == trim(s)
  IN IF t = <<>> THEN JsNum(0)
     ELSE IF IsDigits(t) THEN JsNum(DigitsValue(t))
     ELSE IF Head(t) = "-" /\ IsDigits(Tail(t)) THEN JsNum(0 - DigitsValue(Tail(t)))
     ELSE JsNaN

\* Number(v)
Number(v) ==
  CASE v.t = "undefined" -> JsNaN
    [] v.t = "null" -> JsNum(0)
    [] v.t = "boolean" -> JsNum(IF v.b THEN 1 ELSE 0)
    [] v.t = "number" -> v
    [] v.t = "string" -> StringToNumber(v.s)
    [] OTHER -> JsNaN

-----------------------------------------------------------------------------
(* FlightApiService: the supported airports and the day label *)

validAirports ==
  <<<<"D","X","B">>,
    <<"L","H","R">>,
    <<"C","D","G">>,
    <<"S","I","N">>,
    <<"H","K","G">>,
    <<"A","M","S">>>>
airportNames ==
  <<<<"D","u","b","a","i"," ","I","n","t","e","r","n","a","t","i","o","n","a","l"," ","A","i","r","p","o","r","t">>,
    <<"L","o","n","d","o","n"," ","H","e","a","t","h","r","o","w"," ","A","i","r","p","o","r","t">>,
    <<"C","h","a","r","l","e","s"," ","d","e"," ","G","a","u","l","l","e"," ","A","i","r","p","o","r","t"," ","(","P","a","r","i","s",")">>,
    <<"S","i","n","g","a","p","o","r","e"," ","C","h","a","n","g","i"," ","A","i","r","p","o","r","t">>,
    <<"H","o","n","g"," ","K","o","n","g"," ","I","n","t","e","r","n","a","t","i","o","n","a","l"," ","A","i","r","p","o","r","t">>,
    <<"A","m","s","t","e","r","d","a","m"," ","A","i","r","p","o","r","t"," ","S","c","h","i","p","h","o","l">>>>
UnknownAirport ==
  <<"U","n","k","n","o","w","n"," ","A","i","r","p","o","r","t">>

arrayIncludes(arr, x) == \E i \in DOMAIN arr : arr[i] = x

\* a check that accepts every string as an airport code; C1_ValidationFailure
\* tells it from isValidAirportCode
isValidAirportCodeAnyString(airportCode) == airportCode.t = "string"

\* isValidAirportCode(airportCode): validAirports.includes(airportCode?.toUpperCase())
isValidAirportCode(airportCode) ==
  /\ airportCode.t = "string"
  /\ arrayIncludes(validAirports, toUpperCase(airportCode.s))

\* getAirportName(airportCode): airportNames[airportCode?.toUpperCase()] || 'Unknown Airport'
getAirportName(airportCode) ==
  IF airportCode.t = "string" /\ arrayIncludes(validAirports, toUpperCase(airportCode.s))
  THEN airportNames[CHOOSE i \in DOMAIN validAirports :
                      validAirports[i] = toUpperCase(airportCode.s)]
  ELSE UnknownAirport

LabelYesterday ==
  <<"Y","e","s","t","e","r","d","a","y">>
LabelToday ==
  <<"T","o","d","a","y">>
LabelTomorrow ==
  <<"T","o","m","o","r","r","o","w">>

\* a label that takes every later day for tomorrow and every earlier day for
\* yesterday; C18_DayLabel tells it from getDayLabel
getDayLabelBySign(dayParam) ==
  LET d == Number(dayParam)
  IN IF d.nan THEN LabelToday
     ELSE IF d.n < 0 THEN LabelYesterday
     ELSE IF d.n > 1 THEN LabelTomorrow
     ELSE LabelToday

\* getDayLabel(dayParam): switch (Number(dayParam))
getDayLabel(dayParam) ==
  LET d == Number(dayParam)
  IN IF d.nan THEN LabelToday
     ELSE IF d.n = -1 THEN LabelYesterday
     ELSE IF d.n = 1 THEN LabelToday
     ELSE IF d.n = 2 THEN LabelTomorrow
     ELSE LabelToday

-----------------------------------------------------------------------------
(* LLMService: question validation and sanitisation *)

MinQuestionLength == 5
MaxQuestionLength == 500

questionWords ==
  <<<<"h","o","w">>,
    <<"w","h","a","t">>,
    <<"w","h","e","r","e">>,
    <<"w","h","e","n">>,
    <<"w","h","y">>,
    <<"w","h","i","c","h">>,
    <<"w","h","o">>,
    <<"m","a","n","y">>,
    <<"m","u","c","h">>>>

\* isValidQuestion(question)
isValidQuestion(question) ==
  IF ~Truthy(question) \/ question.t # "string" THEN FALSE
  ELSE \E trimmed \in {trim(question.s)} :
          IF Len(trimmed) < MinQuestionLength THEN FALSE
          ELSE IF Len(trimmed) > MaxQuestionLength THEN FALSE
          ELSE LET hasQuestionWord ==
                     \E lower \in {toLowerCase(trimmed)} :
                        \E i \in DOMAIN questionWords : includes(lower, questionWords[i])
                   hasQuestionMark == includes(trimmed, <<"?">>)
               IN hasQuestionWord \/ hasQuestionMark

\* sanitizeQuestion(question)
sanitizeQuestion(question) ==
  IF ~Truthy(question) \/ question.t # "string" THEN <<>>
  ELSE Only({substring0(RemoveSpecialChars(spaced, 1), MaxQuestionLength) :
                spaced \in {ReplaceWhitespaceRuns(trimmed, 1) :
                               trimmed \in {trim(question.s)}}})

-----------------------------------------------------------------------------
(* routes/flights.js: the validation middleware *)

ErrAirportRequired ==
  <<"A","i","r","p","o","r","t"," ","c","o","d","e"," ","i","s"," ","r","e","q","u","i","r","e","d"," ","a","n","d"," ","m","u","s","t"," ","b","e"," ","a"," ","s","t","r","i","n","g">>
ErrUnsupportedAirport ==
  <<"I","n","v","a","l","i","d"," ","a","i","r","p","o","r","t"," ","c","o","d","e","."," ","S","u","p","p","o","r","t","e","d"," ","a","i","r","p","o","r","t","s",":"," ","D","X","B",","," ","L","H","R",","," ","C","D","G",","," ","S","I","N",","," ","H","K","G",","," ","A","M","S">>
ErrQuestionRequired ==
  <<"Q","u","e","s","t","i","o","n"," ","i","s"," ","r","e","q","u","i","r","e","d"," ","a","n","d"," ","m","u","s","t"," ","b","e"," ","a"," ","s","t","r","i","n","g">>
ErrQuestionFormat ==
  <<"P","l","e","a","s","e"," ","p","r","o","v","i","d","e"," ","a"," ","v","a","l","i","d"," ","q","u","e","s","t","i","o","n"," ","(","m","i","n","i","m","u","m"," ","5"," ","c","h","a","r","a","c","t","e","r","s",","," ","s","h","o","u","l","d"," ","b","e"," ","f","l","i","g","h","t","-","r","e","l","a","t","e","d",")">>
ErrDayParameter ==
  <<"D","a","t","e"," ","p","a","r","a","m","e","t","e","r"," ","m","u","s","t"," ","b","e"," ","-","1"," ","(","y","e","s","t","e","r","d","a","y",")",","," ","1"," ","(","t","o","d","a","y",")",","," ","o","r"," ","2"," ","(","t","o","m","o","r","r","o","w",")">>

DayValues == <<JsNum(-1), JsNum(1), JsNum(2)>>

\* What a middleware does: either it ends the request with a response, or it
\* replaces req.body and calls next()
Reject(status, json) == [next |-> FALSE, status |-> status, json |-> json]
Accept(b) == [next |-> TRUE, body |-> b]

\* validateQueryRequest(req, res, next); b is req.body
validateQueryRequest(b) ==
  LET airport == Get(b, "airport")
      question == Get(b, "question")
      date == Get(b, "date")
  IN IF ~Truthy(airport) \/ airport.t # "string"
     THEN Reject(400, [error |-> ErrAirportRequired, code |-> "INVALID_AIRPORT"])
     ELSE IF ~isValidAirportCode(airport)
     THEN Reject(400, [error |-> ErrUnsupportedAirport, code |-> "UNSUPPORTED_AIRPORT",
                       supportedAirports |-> validAirports])
     ELSE IF ~Truthy(question) \/ question.t # "string"
     THEN Reject(400, [error |-> ErrQuestionRequired, code |-> "INVALID_QUESTION"])
     ELSE IF ~isValidQuestion(question)
     THEN Reject(400, [error |-> ErrQuestionFormat, code |-> "INVALID_QUESTION_FORMAT"])
     ELSE IF date.t # "null" /\ date.t # "undefined" /\ ~arrayIncludes(DayValues, Number(date))
     THEN Reject(400, [error |-> ErrDayParameter, code |-> "INVALID_DAY_PARAMETER"])
     ELSE Accept([airport |-> JsStr(trim(toUpperCase(airport.s))),
                  question |-> JsStr(sanitizeQuestion(question)),
                  date |-> Or(Number(date), JsNull)])


-----------------------------------------------------------------------------
(* LLMService.analyzeQuestionForMode: the Classifier *)

ModeArrivals ==
  <<"a","r","r","i","v","a","l","s">>
ModeDepartures ==
  <<"d","e","p","a","r","t","u","r","e","s">>
ModeBoth ==
  <<"b","o","t","h">>
ModeNone ==
  <<"n","o","n","e">>
ConfidenceHigh ==
  <<"h","i","g","h">>
ConfidenceMedium ==
  <<"m","e","d","i","u","m">>
ConfidenceLow ==
  <<"l","o","w">>
ReasonNoKeywords ==
  <<"Q","u","e","s","t","i","o","n"," ","d","o","e","s"," ","n","o","t"," ","c","o","n","t","a","i","n"," ","a","v","i","a","t","i","o","n","-","r","e","l","a","t","e","d"," ","k","e","y","w","o","r","d","s">>
ReasonKeywordPrefix ==
  <<"K","e","y","w","o","r","d","-","b","a","s","e","d"," ","f","a","l","l","b","a","c","k"," ","a","n","a","l","y","s","i","s"," ","(">>
ReasonErrorDefault ==
  <<"D","e","f","a","u","l","t"," ","f","a","l","l","b","a","c","k"," ","d","u","e"," ","t","o"," ","a","n","a","l","y","s","i","s"," ","e","r","r","o","r">>
KwFlyTo ==
  <<"f","l","y"," ","t","o">>
KwGoTo ==
  <<"g","o"," ","t","o">>
KwDestination ==
  <<"d","e","s","t","i","n","a","t","i","o","n">>
KwDeparting ==
  <<"d","e","p","a","r","t","i","n","g">>
KwLeaving ==
  <<"l","e","a","v","i","n","g">>
KwFrom ==
  <<"f","r","o","m">>
KwArriving ==
  <<"a","r","r","i","v","i","n","g">>
aviationKeywords ==
  <<<<"f","l","i","g","h","t">>,
    <<"a","i","r","p","o","r","t">>,
    <<"a","i","r","l","i","n","e">>,
    <<"p","l","a","n","e">>,
    <<"a","i","r","c","r","a","f","t">>,
    <<"d","e","p","a","r","t","u","r","e">>,
    <<"a","r","r","i","v","a","l">>,
    <<"t","e","r","m","i","n","a","l">>,
    <<"g","a","t","e">>,
    <<"r","u","n","w","a","y">>>>

\* The text of an LLM reply to the classification prompt is represented by what
\* text.match(/\{[\s\S]*\}/) followed by JSON.parse makes of it: a JavaScript
\* value, or JsonSyntaxError when JSON.parse throws
JsonSyntaxError == [t |-> "SyntaxError"]
LlmText(json) == [t |-> "string", json |-> json]

\* An axios call either resolves with response.data or rejects with an error
Resolved(data) == [settled |-> "resolved", data |-> data]
Rejected(status, code, message) ==
  [settled |-> "rejected", status |-> status, code |-> code, message |-> message]

IsNullish(v) == v.t = "null" \/ v.t = "undefined"

\* response.data.choices[0]?.message?.content, or TypeError when response.data
\* or response.data.choices is null or undefined
TypeErrorMarker == [t |-> "TypeError"]
FirstChoiceContent(data) ==
  IF IsNullish(data) \/ IsNullish(Get(data, "choices")) THEN TypeErrorMarker
  ELSE LET choices == Get(data, "choices")
           first == IF choices.t = "array" /\ Len(choices.a) > 0
                    THEN choices.a[1] ELSE JsUndefined
       IN Get(Get(first, "message"), "content")

\* a keyword heuristic that looks for the origin keywords first;
\* C5_KeywordFallback tells it from KeywordFallback
KeywordFallbackOriginFirst(question) ==
  LET questionLower == toLowerCase(question)
      isAviationRelated ==
        \E i \in DOMAIN aviationKeywords : includes(questionLower, aviationKeywords[i])
      fallbackMode ==
        IF includes(questionLower, KwFrom) \/ includes(questionLower, KwArriving)
        THEN ModeArrivals
        ELSE IF \/ includes(questionLower, KwFlyTo)
                \/ includes(questionLower, KwGoTo)
                \/ includes(questionLower, KwDestination)
                \/ includes(questionLower, KwDeparting)
                \/ includes(questionLower, KwLeaving)
        THEN ModeDepartures
        ELSE ModeBoth
  IN IF ~isAviationRelated
     THEN JsObj([relevant |-> JsBool(FALSE),
                 mode |-> JsStr(ModeNone),
                 reasoning |-> JsStr(ReasonNoKeywords),
                 confidence |-> JsStr(ConfidenceMedium),
                 shouldSkipAPI |-> JsBool(TRUE)])
     ELSE JsObj([relevant |-> JsBool(TRUE),
                 mode |-> JsStr(fallbackMode),
                 reasoning |-> JsStr(ReasonKeywordPrefix \o fallbackMode \o <<")">>),
                 confidence |-> JsStr(ConfidenceMedium)])

\* the catch (parseError) block: the keyword heuristic on the question
KeywordFallback(question) ==
  LET questionLower == toLowerCase(question)
      isAviationRelated ==
        \E i \in DOMAIN aviationKeywords : includes(questionLower, aviationKeywords[i])
      fallbackMode ==
        IF \/ includes(questionLower, KwFlyTo)
           \/ includes(questionLower, KwGoTo)
           \/ includes(questionLower, KwDestination)
           \/ includes(questionLower, KwDeparting)
           \/ includes(questionLower, KwLeaving)
        THEN ModeDepartures
        ELSE IF includes(questionLower, KwFrom) \/ includes(questionLower, KwArriving)
        THEN ModeArrivals
        ELSE ModeBoth
  IN IF ~isAviationRelated
     THEN JsObj([relevant |-> JsBool(FALSE),
                 mode |-> JsStr(ModeNone),
                 reasoning |-> JsStr(ReasonNoKeywords),
                 confidence |-> JsStr(ConfidenceMedium),
                 shouldSkipAPI |-> JsBool(TRUE)])
     ELSE JsObj([relevant |-> JsBool(TRUE),
                 mode |-> JsStr(fallbackMode),
                 reasoning |-> JsStr(ReasonKeywordPrefix \o fallbackMode \o <<")">>),
                 confidence |-> JsStr(ConfidenceMedium)])

\* a default that marks the question as irrelevant;
\* C20_FailedClassificationFetches tells it from ClassifierErrorDefault
ClassifierErrorIrrelevant ==
  JsObj([relevant |-> JsBool(FALSE),
         mode |-> JsStr(ModeNone),
         reasoning |-> JsStr(ReasonErrorDefault),
         confidence |-> JsStr(ConfidenceLow),
         shouldSkipAPI |-> JsBool(TRUE)])

\* an outer catch block that rethrows; C4_ClassifierAbsorbsErrors tells it from
\* ClassifierErrorDefault
ClassifierErrorRethrown == [t |-> "throw", message |-> ReasonErrorDefault]

\* the outer catch (error) block
ClassifierErrorDefault ==
  JsObj([mode |-> JsStr(ModeArrivals),
         reasoning |-> JsStr(ReasonErrorDefault),
         confidence |-> JsStr(ConfidenceLow)])

\* the inner try block: JSON.parse and the relevance check
ParsedAnalysis(question, analysisText) ==
  IF IsNullish(analysisText) THEN KeywordFallback(question)  \* analysisText.match throws
  ELSE LET analysis == analysisText.json
       IN IF analysis = JsonSyntaxError THEN KeywordFallback(question)
          ELSE IF IsNullish(analysis) THEN KeywordFallback(question)  \* analysis.relevant throws
          ELSE IF Get(analysis, "relevant") = JsBool(FALSE)
          THEN JsObj([relevant |-> JsBool(FALSE),
                      mode |-> JsStr(ModeNone),
                      reasoning |-> Get(analysis, "reasoning"),
                      confidence |-> Get(analysis, "confidence"),
                      shouldSkipAPI |-> JsBool(TRUE)])
          ELSE analysis

\* analyzeQuestionForMode(question, airport), given how the LLM call settles.
\* The result is the value the returned promise resolves with; the function has
\* no path on which the promise rejects.
analyzeQuestionForMode(question, llm) ==
  IF llm.settled = "rejected" THEN ClassifierErrorDefault
  ELSE LET content == FirstChoiceContent(llm.data)
       IN IF content = TypeErrorMarker THEN ClassifierErrorDefault
          ELSE IF ~IsNullish(content) /\ content.t # "string"
          THEN ClassifierErrorDefault  \* content.trim is not a function
          ELSE ParsedAnalysis(question, content)


-----------------------------------------------------------------------------
(* FlightApiService.getAirportSchedule: the Fetcher *)

ErrFlightKey ==
  <<"I","n","v","a","l","i","d"," ","F","l","i","g","h","t","A","P","I"," ","k","e","y","."," ","P","l","e","a","s","e"," ","c","h","e","c","k"," ","y","o","u","r"," ","A","P","I"," ","c","o","n","f","i","g","u","r","a","t","i","o","n",".">>
ErrFlightRateLimit ==
  <<"F","l","i","g","h","t","A","P","I"," ","r","a","t","e"," ","l","i","m","i","t"," ","e","x","c","e","e","d","e","d","."," ","P","l","e","a","s","e"," ","t","r","y"," ","a","g","a","i","n"," ","l","a","t","e","r",".">>
ErrAirportPrefix ==
  <<"A","i","r","p","o","r","t"," ">>
ErrAirportSuffix ==
  <<" ","n","o","t"," ","f","o","u","n","d"," ","o","r"," ","n","o"," ","d","a","t","a"," ","a","v","a","i","l","a","b","l","e",".">>
ErrFlightTimeout ==
  <<"F","l","i","g","h","t","A","P","I"," ","r","e","q","u","e","s","t"," ","t","i","m","e","o","u","t","."," ","P","l","e","a","s","e"," ","t","r","y"," ","a","g","a","i","n",".">>
ErrFetchPrefix ==
  <<"F","a","i","l","e","d"," ","t","o"," ","f","e","t","c","h"," ","f","l","i","g","h","t"," ","d","a","t","a",":"," ">>
UnknownCountry ==
  <<"U","n","k","n","o","w","n"," ","C","o","u","n","t","r","y">>
UnknownCity ==
  <<"U","n","k","n","o","w","n"," ","C","i","t","y">>
UnknownAirline ==
  <<"U","n","k","n","o","w","n"," ","A","i","r","l","i","n","e">>
ErrReadFlightOfNull ==
  <<"C","a","n","n","o","t"," ","r","e","a","d"," ","p","r","o","p","e","r","t","i","e","s"," ","o","f"," ","n","u","l","l"," ","(","r","e","a","d","i","n","g"," ","'","f","l","i","g","h","t","'",")">>

\* A function that throws returns Thrown(message) here
Thrown(message) == [t |-> "throw", message |-> message]
IsThrown(v) == v.t = "throw"

RECURSIVE GetPath(_, _)
\* o?.k1?.k2 ... ?.kn
GetPath(o, keys) == IF keys = <<>> THEN o ELSE GetPath(Get(o, Head(keys)), Tail(keys))

\* a rawResult that is replaced by each reply instead of extended;
\* C24_InputUntouched tells it from SetKey
SetKeyAlone(o, k, v) == JsObj([x \in {k} |-> v])

\* rawResult with one more key
SetKey(o, k, v) == JsObj([x \in DOMAIN o.f \cup {k} |-> IF x = k THEN v ELSE o.f[x]])

\* const validDayParam = Number(dayParam) || 1
ValidDayParam(dayParam) == Or(Number(dayParam), JsNum(1))

\* the mode parameter's default: mode = 'both' when the argument is undefined
ModeParam(mode) == IF mode.t = "undefined" THEN JsStr(ModeBoth) ELSE mode

WantsArrivals(mode) == mode = JsStr(ModeBoth) \/ mode = JsStr(ModeArrivals)
\* a departures test that leaves out mode 'both'; C15_OneCallPerDirection
\* tells it from WantsDepartures
WantsDeparturesOnly(mode) == mode = JsStr(ModeDepartures)
WantsDepartures(mode) == mode = JsStr(ModeBoth) \/ mode = JsStr(ModeDepartures)

\* the catch block of getAirportSchedule: the Error it throws for an axios error
FetcherError(err, airportCode) ==
  IF err.status = 401 THEN Thrown(ErrFlightKey)
  ELSE IF err.status = 429 THEN Thrown(ErrFlightRateLimit)
  ELSE IF err.status = 404 THEN Thrown(ErrAirportPrefix \o airportCode \o ErrAirportSuffix)
  ELSE IF err.code = "ECONNABORTED" THEN Thrown(ErrFlightTimeout)
  ELSE Thrown(ErrFetchPrefix \o err.message)

ArrivalsPath == <<"arrivals", "airport", "pluginData", "schedule", "arrivals", "data">>
DeparturesPath == <<"departures", "airport", "pluginData", "schedule", "departures", "data">>

\* a result built without the "|| []" defaults; C16_MissingPathIsEmptyList
\* tells it from ScheduleResult
ScheduleResultNoDefault(airportCode, validDayParam, mode, rawResult) ==
  LET arrivals == GetPath(rawResult, ArrivalsPath)
      departures == GetPath(rawResult, DeparturesPath)
      Length(v) == IF v.t = "array" THEN Len(v.a) ELSE 0
  IN [airport |-> toUpperCase(airportCode),
      dayParam |-> validDayParam,
      dayLabel |-> getDayLabel(validDayParam),
      arrivals |-> arrivals,
      departures |-> departures,
      rawResult |-> rawResult,
      metadata |-> [totalArrivals |-> Length(arrivals),
                    totalDepartures |-> Length(departures),
                    parameters |-> [mode |-> mode,
                                    iata |-> toUpperCase(airportCode),
                                    day |-> validDayParam]]]

\* the result object built once the requested calls have resolved
ScheduleResult(airportCode, validDayParam, mode, rawResult) ==
  Only({
  LET arrivals == lists[1]
      departures == lists[2]
  IN [airport |-> toUpperCase(airportCode),
      dayParam |-> validDayParam,
      dayLabel |-> getDayLabel(validDayParam),
      arrivals |-> arrivals,
      departures |-> departures,
      rawResult |-> rawResult,
      metadata |-> [totalArrivals |-> Len(arrivals.a),
                    totalDepartures |-> Len(departures.a),
                    parameters |-> [mode |-> mode,
                                    iata |-> toUpperCase(airportCode),
                                    day |-> validDayParam]]]
  : lists \in {<<Or(GetPath(rawResult, ArrivalsPath), JsArr(<<>>)),
                 Or(GetPath(rawResult, DeparturesPath), JsArr(<<>>))>>}})

-----------------------------------------------------------------------------
(* FlightApiService.processFlightData: the Aggregator *)

\* A Map is the sequence of its entries in insertion order
MapHas(m, k) == \E i \in DOMAIN m : m[i].key = k
\* a grouping that sets the key's list anew on every flight; C7_GroupSizes
\* tells it from MapPush
MapPushOverwrite(m, k, v) ==
  IF MapHas(m, k)
  THEN [i \in DOMAIN m |-> IF m[i].key = k THEN [key |-> k, value |-> <<v>>] ELSE m[i]]
  ELSE Append(m, [key |-> k, value |-> <<v>>])
\* if (!map.has(k)) map.set(k, []); map.get(k).push(v)
MapPush(m, k, v) ==
  IF MapHas(m, k)
  THEN [i \in DOMAIN m |-> IF m[i].key = k
                           THEN [key |-> k, value |-> Append(m[i].value, v)]
                           ELSE m[i]]
  ELSE Append(m, [key |-> k, value |-> <<v>>])
\* A Set is the sequence of its elements in insertion order
SetAdd(s, x) == IF \E i \in DOMAIN s : s[i] = x THEN s ELSE Append(s, x)
\* the airlines of both directions side by side, without the Set;
\* C22_SummaryCounts tells it from SetAddAll
SetAddAllNoSet(s, xs) == s \o xs
RECURSIVE SetAddAll(_, _)
SetAddAll(s, xs) ==
  IF xs = <<>> THEN s
  ELSE Only({SetAddAll(next, Tail(xs)) : next \in {SetAdd(s, Head(xs))}})

\* a country without the fallback to the country code;
\* C8_SentinelsAndFallbacks tells it from CountryOf
CountryOfNameOnly(fl, counterpart) ==
  Or(GetPath(fl, <<"airport", counterpart, "position", "country", "name">>),
     JsStr(UnknownCountry))

\* the country, city and airline of one flight; counterpart is "origin" for
\* arrivals and "destination" for departures
CountryOf(fl, counterpart) ==
  Or(GetPath(fl, <<"airport", counterpart, "position", "country", "name">>),
     Or(GetPath(fl, <<"airport", counterpart, "position", "country", "code">>),
        JsStr(UnknownCountry)))
CityOf(fl, counterpart) ==
  Or(GetPath(fl, <<"airport", counterpart, "name">>),
     Or(GetPath(fl, <<"airport", counterpart, "code", "iata">>),
        JsStr(UnknownCity)))
AirlineOf(fl) ==
  Or(GetPath(fl, <<"airline", "name">>),
     Or(GetPath(fl, <<"airline", "code", "iata">>),
        JsStr(UnknownAirline)))
FlightNumberOf(fl) ==
  Or(GetPath(fl, <<"identification", "number", "default">>),
     GetPath(fl, <<"identification", "callsign">>))
AircraftOf(fl) ==
  Or(GetPath(fl, <<"aircraft", "model", "text">>), GetPath(fl, <<"aircraft", "registration">>))

\* timeKey is "departure" for arrivals and "arrival" for departures
CountryDetail(fl, counterpart, timeKey) ==
  [city |-> CityOf(fl, counterpart),
   airline |-> AirlineOf(fl),
   flightNumber |-> FlightNumberOf(fl),
   scheduledTime |-> GetPath(fl, <<"time", "scheduled", timeKey>>),
   actualTime |-> GetPath(fl, <<"time", "real", timeKey>>),
   status |-> GetPath(fl, <<"status", "text">>),
   aircraft |-> AircraftOf(fl)]
CityDetail(fl, counterpart, timeKey) ==
  [country |-> CountryOf(fl, counterpart),
   airline |-> AirlineOf(fl),
   flightNumber |-> FlightNumberOf(fl),
   scheduledTime |-> GetPath(fl, <<"time", "scheduled", timeKey>>),
   status |-> GetPath(fl, <<"status", "text">>)]

EmptyGroups == [byCountry |-> <<>>, byCity |-> <<>>, airlines |-> <<>>]

\* the body of the forEach callback for one element of the list
ProcessFlight(acc, flight, counterpart, timeKey) ==
  IF IsNullish(flight) THEN Thrown(ErrReadFlightOfNull)  \* flight.flight on null
  ELSE Only({
          IF ~Truthy(fl) THEN acc
          ELSE [byCountry |-> MapPush(acc.byCountry, CountryOf(fl, counterpart),
                                      CountryDetail(fl, counterpart, timeKey)),
                byCity |-> MapPush(acc.byCity, CityOf(fl, counterpart),
                                   CityDetail(fl, counterpart, timeKey)),
                airlines |-> SetAdd(acc.airlines, AirlineOf(fl))]
          : fl \in {Get(flight, "flight")}})

RECURSIVE ProcessFlights(_, _, _, _, _)
\* list.forEach(...) from element i on; an exception ends the loop
ProcessFlights(acc, list, i, counterpart, timeKey) ==
  IF i > Len(list) THEN acc
  ELSE Only({IF "t" \in DOMAIN next THEN next
             ELSE ProcessFlights(next, list, i + 1, counterpart, timeKey)
             : next \in {ProcessFlight(acc, list[i], counterpart, timeKey)}})

\* String(key) of a property key
PropertyKey(k) ==
  IF k.t = "string" THEN k.s
  ELSE <<"[","o","b","j","e","c","t"," ","O","b","j","e","c","t","]">>
\* an integer-like key ("0", "7", "12"): such keys are enumerated first, ascending
IsIndexKey(s) == IsDigits(s) /\ (Len(s) = 1 \/ Head(s) # "0")

RECURSIVE SortIndexKeys(_)
SortIndexKeys(entries) ==
  IF entries = <<>> THEN <<>>
  ELSE LET least == CHOOSE i \in DOMAIN entries :
                      \A j \in DOMAIN entries :
                         DigitsValue(entries[i].key) <= DigitsValue(entries[j].key)
       IN Only({<<entries[least]>> \o SortIndexKeys(rest) :
                  rest \in {SubSeq(entries, 1, least - 1) \o
                             SubSeq(entries, least + 1, Len(entries))}})

RECURSIVE DefineProperties(_, _)
\* CreateDataProperty for each entry in turn: a repeated key keeps its place
\* and takes the later value
DefineProperties(obj, entries) ==
  IF entries = <<>> THEN obj
  ELSE LET e == [key |-> PropertyKey(Head(entries).key), value |-> Head(entries).value]
       IN Only({DefineProperties(next, Tail(entries)) :
                  next \in {IF \E i \in DOMAIN obj : obj[i].key = e.key
                             THEN [i \in DOMAIN obj |->
                                     IF obj[i].key = e.key THEN e ELSE obj[i]]
                             ELSE Append(obj, e)}})

\* Object.fromEntries(map): the object as the sequence of its properties in
\* the order Object.entries enumerates them
ObjectFromEntries(map) ==
  Only({SortIndexKeys(SelectSeq(props, LAMBDA e : IsIndexKey(e.key)))
          \o SelectSeq(props, LAMBDA e : ~IsIndexKey(e.key)) :
        props \in {DefineProperties(<<>>, map)}})

\* processFlightData(flightData)
processFlightData(flightData) ==
  Only({
  LET arr == groups[1]
      dep == groups[2]
  IN IF "t" \in DOMAIN arr THEN arr
     ELSE IF "t" \in DOMAIN dep THEN dep
     ELSE [airport |-> flightData.airport,
           dayParam |-> flightData.dayParam,
           dayLabel |-> flightData.dayLabel,
           summary |-> [totalArrivals |-> Len(flightData.arrivals.a),
                        totalDepartures |-> Len(flightData.departures.a),
                        arrivalCountries |-> Len(arr.byCountry),
                        departureCountries |-> Len(dep.byCountry),
                        arrivalCities |-> Len(arr.byCity),
                        departureCities |-> Len(dep.byCity),
                        uniqueAirlines |-> Len(SetAddAll(arr.airlines, dep.airlines))],
           arrivals |-> [byCountry |-> ObjectFromEntries(arr.byCountry),
                         byCity |-> ObjectFromEntries(arr.byCity),
                         airlines |-> arr.airlines,
                         total |-> Len(flightData.arrivals.a)],
           departures |-> [byCountry |-> ObjectFromEntries(dep.byCountry),
                           byCity |-> ObjectFromEntries(dep.byCity),
                           airlines |-> dep.airlines,
                           total |-> Len(flightData.departures.a)],
           metadata |-> flightData.metadata,
           rawResult |-> flightData.rawResult]
  : groups \in {<<ProcessFlights(EmptyGroups, flightData.arrivals.a, 1, "origin", "departure"),
                  ProcessFlights(EmptyGroups, flightData.departures.a, 1, "destination", "arrival")>>}})


-----------------------------------------------------------------------------
(* LLMService.generateAnswer: the Generator *)

ErrOpenRouterKey ==
  <<"I","n","v","a","l","i","d"," ","O","p","e","n","R","o","u","t","e","r"," ","A","P","I"," ","k","e","y","."," ","P","l","e","a","s","e"," ","c","h","e","c","k"," ","y","o","u","r"," ","c","o","n","f","i","g","u","r","a","t","i","o","n",".">>
ErrOpenRouterRateLimit ==
  <<"O","p","e","n","R","o","u","t","e","r"," ","r","a","t","e"," ","l","i","m","i","t"," ","e","x","c","e","e","d","e","d","."," ","P","l","e","a","s","e"," ","t","r","y"," ","a","g","a","i","n"," ","l","a","t","e","r",".">>
ErrOpenRouterCredits ==
  <<"O","p","e","n","R","o","u","t","e","r"," ","a","c","c","o","u","n","t"," ","h","a","s"," ","i","n","s","u","f","f","i","c","i","e","n","t"," ","c","r","e","d","i","t","s",".">>
ErrLlmTimeout ==
  <<"L","L","M"," ","r","e","q","u","e","s","t"," ","t","i","m","e","o","u","t","."," ","P","l","e","a","s","e"," ","t","r","y"," ","a","g","a","i","n"," ","w","i","t","h"," ","a"," ","s","i","m","p","l","e","r"," ","q","u","e","s","t","i","o","n",".">>
ErrGeneratePrefix ==
  <<"F","a","i","l","e","d"," ","t","o"," ","g","e","n","e","r","a","t","e"," ","a","n","s","w","e","r",":"," ">>
ErrNoAnswer ==
  <<"N","o"," ","a","n","s","w","e","r"," ","g","e","n","e","r","a","t","e","d"," ","b","y"," ","L","L","M">>
ErrReadChoiceOfUndefined ==
  <<"C","a","n","n","o","t"," ","r","e","a","d"," ","p","r","o","p","e","r","t","i","e","s"," ","o","f"," ","u","n","d","e","f","i","n","e","d"," ","(","r","e","a","d","i","n","g"," ","'","0","'",")">>
ErrTrimNotFunction ==
  <<"a","n","s","w","e","r",".","t","r","i","m"," ","i","s"," ","n","o","t"," ","a"," ","f","u","n","c","t","i","o","n">>

\* an Error object thrown inside a try block: it carries no response and no code
PlainError(message) == Rejected(0, "", message)

\* the catch block of generateAnswer: the Error it throws for the error caught
GeneratorError(err) ==
  IF err.status = 401 THEN Thrown(ErrOpenRouterKey)
  ELSE IF err.status = 429 THEN Thrown(ErrOpenRouterRateLimit)
  ELSE IF err.status = 402 THEN Thrown(ErrOpenRouterCredits)
  ELSE IF err.code = "ECONNABORTED" THEN Thrown(ErrLlmTimeout)
  ELSE Thrown(ErrGeneratePrefix \o err.message)

\* generateAnswer(question, flightData, airport, mode, modeAnalysis), given how
\* the LLM call settles: the answer text, or Thrown(message)
generateAnswer(llm) ==
  IF llm.settled = "rejected" THEN GeneratorError(llm)
  ELSE LET answer == FirstChoiceContent(llm.data)
       IN IF answer = TypeErrorMarker
          THEN GeneratorError(PlainError(ErrReadChoiceOfUndefined))
          ELSE IF ~Truthy(answer) THEN GeneratorError(PlainError(ErrNoAnswer))
          ELSE IF answer.t # "string" THEN GeneratorError(PlainError(ErrTrimNotFunction))
          ELSE JsStr(trim(answer.s))

-----------------------------------------------------------------------------
(* routes/flights.js: the POST /query handler *)

FixedAnswer ==
  <<"S","o","r","r","y",","," ","I"," ","c","a","n","'","t"," ","u","n","d","e","r","s","t","a","n","d"," ","y","o","u","r"," ","q","u","e","s","t","i","o","n","."," ","C","a","n"," ","y","o","u"," ","a","s","k"," ","a","g","a","i","n","?"," ","I","'","m"," ","d","e","s","i","g","n","e","d"," ","t","o"," ","h","e","l","p"," ","w","i","t","h"," ","f","l","i","g","h","t"," ","s","c","h","e","d","u","l","e","s",","," ","a","i","r","p","o","r","t"," ","i","n","f","o","r","m","a","t","i","o","n",","," ","a","i","r","l","i","n","e","s",","," ","a","n","d"," ","o","t","h","e","r"," ","a","v","i","a","t","i","o","n","-","r","e","l","a","t","e","d"," ","t","o","p","i","c","s",".">>
ErrNoDataPrefix ==
  <<"N","o"," ","f","l","i","g","h","t"," ","d","a","t","a"," ","a","v","a","i","l","a","b","l","e"," ","f","o","r"," ">>
PatInvalidFlightKey ==
  <<"I","n","v","a","l","i","d"," ","F","l","i","g","h","t","A","P","I"," ","k","e","y">>
PatRateLimit ==
  <<"r","a","t","e"," ","l","i","m","i","t">>
PatTimeout ==
  <<"t","i","m","e","o","u","t">>
PatInvalidOpenRouter ==
  <<"I","n","v","a","l","i","d"," ","O","p","e","n","R","o","u","t","e","r">>

TopCountriesLimit == 10

RECURSIVE InsertByCount(_, _)
\* e goes behind every entry that has at least as many flights
InsertByCount(sorted, e) ==
  IF sorted = <<>> THEN <<e>>
  ELSE IF Len(Head(sorted).value) >= Len(e.value)
  THEN <<Head(sorted)>> \o InsertByCount(Tail(sorted), e)
  ELSE <<e>> \o sorted
RECURSIVE SortByCountDesc(_)
\* entries.sort(([, a], [, b]) => b.length - a.length); the sort is stable
SortByCountDesc(entries) ==
  IF entries = <<>> THEN <<>>
  ELSE Only({InsertByCount(sorted, entries[Len(entries)]) :
               sorted \in {SortByCountDesc(SubSeq(entries, 1, Len(entries) - 1))}})
\* slice(0, n)
Slice0(s, n) == IF Len(s) <= n THEN s ELSE SubSeq(s, 1, n)

\* Object.entries(byCountry).sort(...).slice(0, 10).map(...)
TopCountries(byCountry) ==
  Only({[i \in 1..Len(top) |-> [country |-> top[i].key, count |-> Len(top[i].value)]] :
          top \in {Slice0(SortByCountDesc(byCountry), TopCountriesLimit)}})

\* the response of the relevance branch (res.json: status 200)
SkippedResponse(b, analysis, responseTime) ==
  [status |-> 200,
   json |-> [success |-> TRUE,
             airport |-> b.airport,
             airportName |-> getAirportName(b.airport),
             question |-> b.question,
             answer |-> JsStr(FixedAnswer),
             analysis |-> [mode |-> Get(analysis, "mode"),
                           reasoning |-> Get(analysis, "reasoning"),
                           confidence |-> Get(analysis, "confidence"),
                           relevant |-> FALSE],
             metadata |-> [responseTime |-> responseTime,
                           dataSource |-> "No API call made",
                           aiModel |-> "Gemini Flash 1.5",
                           flightApiCalled |-> FALSE]]]

\* the response when both lists are empty
NoFlightDataResponse(b, data) ==
  [status |-> 404,
   json |-> [error |-> ErrNoDataPrefix \o b.airport.s \o <<" ", "(">> \o data.dayLabel \o <<")">>,
             code |-> "NO_FLIGHT_DATA",
             airport |-> b.airport,
             dayParam |-> data.dayParam,
             dayLabel |-> data.dayLabel]]

\* the response of the success path
AnsweredResponse(b, analysis, processed, answer, responseTime) ==
  [status |-> 200,
   json |-> [success |-> TRUE,
             airport |-> b.airport,
             airportName |-> getAirportName(b.airport),
             question |-> b.question,
             answer |-> answer,
             analysis |-> [mode |-> Get(analysis, "mode"),
                           reasoning |-> Get(analysis, "reasoning"),
                           confidence |-> Get(analysis, "confidence")],
             data |-> [dayParam |-> processed.dayParam,
                       dayLabel |-> processed.dayLabel,
                       summary |-> processed.summary,
                       arrivals |-> [total |-> processed.arrivals.total,
                                     topCountries |-> TopCountries(processed.arrivals.byCountry),
                                     topAirlines |-> Slice0(processed.arrivals.airlines,
                                                            TopCountriesLimit)],
                       departures |-> [total |-> processed.departures.total,
                                       topCountries |-> TopCountries(processed.departures.byCountry),
                                       topAirlines |-> Slice0(processed.departures.airlines,
                                                              TopCountriesLimit)],
                       rawResult |-> processed.rawResult],
             metadata |-> [responseTime |-> responseTime,
                           dataSource |-> "FlightAPI.io",
                           aiModel |-> "Gemini Flash 1.5",
                           flightApiMode |-> Get(analysis, "mode"),
                           flightApiCalled |-> TRUE]]]

\* a status mapping without the timeout branch; C12_UpstreamCodes tells it from
\* ErrorStatus
ErrorStatusNoTimeout(message) ==
  IF includes(message, PatInvalidFlightKey) THEN [status |-> 502, code |-> "FLIGHT_API_ERROR"]
  ELSE IF includes(message, PatRateLimit) THEN [status |-> 429, code |-> "RATE_LIMIT_EXCEEDED"]
  ELSE IF includes(message, PatInvalidOpenRouter) THEN [status |-> 502, code |-> "LLM_API_ERROR"]
  ELSE [status |-> 500, code |-> "INTERNAL_ERROR"]

\* the catch block: status and code from the error's message
ErrorStatus(message) ==
  IF includes(message, PatInvalidFlightKey) THEN [status |-> 502, code |-> "FLIGHT_API_ERROR"]
  ELSE IF includes(message, PatRateLimit) THEN [status |-> 429, code |-> "RATE_LIMIT_EXCEEDED"]
  ELSE IF includes(message, PatTimeout) THEN [status |-> 504, code |-> "REQUEST_TIMEOUT"]
  ELSE IF includes(message, PatInvalidOpenRouter) THEN [status |-> 502, code |-> "LLM_API_ERROR"]
  ELSE [status |-> 500, code |-> "INTERNAL_ERROR"]

\* an error response without metadata; C9_ElapsedTime tells it from
\* ErrorResponse
ErrorResponseNoMetadata(b, message, responseTime) ==
  [status |-> ErrorStatus(message).status,
   json |-> [error |-> message,
             code |-> ErrorStatus(message).code,
             airport |-> b.airport,
             question |-> b.question]]

\* the response of the catch block
ErrorResponse(b, message, responseTime) ==
  [status |-> ErrorStatus(message).status,
   json |-> [error |-> message,
             code |-> ErrorStatus(message).code,
             airport |-> b.airport,
             question |-> b.question,
             metadata |-> [responseTime |-> responseTime]]]


-----------------------------------------------------------------------------
(* Inputs: request bodies, LLM replies, schedule replies *)

\* an object from a set of <<key, value>> pairs; a pair whose value is
\* undefined stands for a key the object does not have
ObjOf(pairs) ==
  LET present == {p \in pairs : p[2] # JsUndefined}
  IN JsObj([k \in {p[1] : p \in present} |-> (CHOOSE p \in present : p[1] = k)[2]])

LongQuestion == [i \in 1..(MaxQuestionLength + 1) |-> IF i = 1 THEN "?" ELSE "a"]

AirportInputs ==
  {JsUndefined, JsNum(1), JsStr(<<>>), JsStr(<<"J","F","K">>), JsStr(<<"l","h","r">>)}

QuestionArrivedFromGermany ==
  <<"H","o","w"," ","m","a","n","y"," ","f","l","i","g","h","t","s"," ","a","r","r","i","v","e","d"," ","f","r","o","m"," ","G","e","r","m","a","n","y","?">>
QuestionFlyTo ==
  <<"W","h","i","c","h"," ","c","i","t","i","e","s"," ","d","o","e","s"," ","B","A"," ","f","l","y"," ","t","o","?">>
QuestionWeather ==
  <<"W","h","a","t","'","s"," ","t","h","e"," ","w","e","a","t","h","e","r"," ","l","i","k","e","?">>
QuestionAirlines ==
  <<"W","h","i","c","h"," ","a","i","r","l","i","n","e","s"," ","u","s","e"," ","t","h","e"," "," "," ","a","i","r","p","o","r","t","?">>
QuestionLeaving ==
  <<"W","h","a","t"," ","f","l","i","g","h","t","s"," ","a","r","e"," ","l","e","a","v","i","n","g"," ","t","o","d","a","y","?">>
ValidQuestionInputs ==
  {JsStr(QuestionArrivedFromGermany), JsStr(QuestionFlyTo), JsStr(QuestionWeather),
   JsStr(QuestionAirlines), JsStr(QuestionLeaving)}
QuestionInputs ==
  ValidQuestionInputs \cup
  {JsUndefined, JsNum(1), JsStr(<<>>), JsStr(<<"H","i","?">>), JsStr(<<"F","l","i","g","h","t","s"," ","t","o"," ","R","o","m","e">>), JsStr(LongQuestion)}

DateInputs ==
  {JsUndefined, JsNull, JsNum(-1), JsNum(2), JsNum(0), JsNum(3),
   JsStr(<<"2">>), JsStr(<<"s","o","o","n">>), JsBool(TRUE)}

\* req.body: one field varies over all its inputs while the others are valid,
\* and two invalid fields are combined to show the order of the checks
RequestBody(airport, question, date) ==
  ObjOf({<<"airport", airport>>, <<"question", question>>, <<"date", date>>})
Requests ==
  {RequestBody(a, JsStr(QuestionArrivedFromGermany), JsUndefined) : a \in AirportInputs}
  \cup {RequestBody(JsStr(<<"l","h","r">>), q, JsNum(2)) : q \in QuestionInputs}
  \cup {RequestBody(JsStr(<<"l","h","r">>), JsStr(QuestionAirlines), d) : d \in DateInputs}
  \cup {RequestBody(a, q, d) : a \in {JsUndefined, JsStr(<<"J","F","K">>)},
                               q \in {JsUndefined, JsStr(<<"H","i","?">>)},
                               d \in {JsNum(0), JsBool(TRUE)}}

\* response.data of a chat completion whose first choice has this content
Completion(content) ==
  JsObj([choices |-> JsArr(<<JsObj([message |-> ObjOf({<<"content", content>>})])>>)])

ErrTimeoutExceeded ==
  <<"t","i","m","e","o","u","t"," ","o","f"," ","3","0","0","0","0","m","s"," ","e","x","c","e","e","d","e","d">>
ErrStatus401 ==
  <<"R","e","q","u","e","s","t"," ","f","a","i","l","e","d"," ","w","i","t","h"," ","s","t","a","t","u","s"," ","c","o","d","e"," ","4","0","1">>
ErrStatus402 ==
  <<"R","e","q","u","e","s","t"," ","f","a","i","l","e","d"," ","w","i","t","h"," ","s","t","a","t","u","s"," ","c","o","d","e"," ","4","0","2">>
ErrStatus404 ==
  <<"R","e","q","u","e","s","t"," ","f","a","i","l","e","d"," ","w","i","t","h"," ","s","t","a","t","u","s"," ","c","o","d","e"," ","4","0","4">>
ErrStatus429 ==
  <<"R","e","q","u","e","s","t"," ","f","a","i","l","e","d"," ","w","i","t","h"," ","s","t","a","t","u","s"," ","c","o","d","e"," ","4","2","9">>
ErrStatus500 ==
  <<"R","e","q","u","e","s","t"," ","f","a","i","l","e","d"," ","w","i","t","h"," ","s","t","a","t","u","s"," ","c","o","d","e"," ","5","0","0">>
ErrNetwork ==
  <<"N","e","t","w","o","r","k"," ","E","r","r","o","r">>
AxiosErrors ==
  {Rejected(401, "ERR_BAD_REQUEST", ErrStatus401),
   Rejected(402, "ERR_BAD_REQUEST", ErrStatus402),
   Rejected(404, "ERR_BAD_REQUEST", ErrStatus404),
   Rejected(429, "ERR_BAD_REQUEST", ErrStatus429),
   Rejected(500, "ERR_BAD_RESPONSE", ErrStatus500),
   Rejected(0, "ECONNABORTED", ErrTimeoutExceeded),
   Rejected(0, "ERR_NETWORK", ErrNetwork)}

ReasonGiven ==
  <<"T","h","e"," ","q","u","e","s","t","i","o","n"," ","a","s","k","s"," ","a","b","o","u","t"," ","f","l","i","g","h","t","s">>
Analysis(relevant, mode, skip) ==
  ObjOf({<<"relevant", relevant>>, <<"mode", mode>>, <<"shouldSkipAPI", skip>>,
         <<"reasoning", JsStr(ReasonGiven)>>, <<"confidence", JsStr(ConfidenceHigh)>>})
\* what a parseable classification reply parses to
ParsedReplies ==
  {Analysis(JsBool(FALSE), JsStr(ModeNone), JsUndefined),
   Analysis(JsBool(FALSE), JsStr(ModeArrivals), JsUndefined),
   Analysis(JsBool(TRUE), JsStr(ModeArrivals), JsUndefined),
   Analysis(JsBool(TRUE), JsStr(ModeDepartures), JsUndefined),
   Analysis(JsBool(TRUE), JsStr(ModeBoth), JsUndefined),
   Analysis(JsBool(TRUE), JsStr(ModeNone), JsUndefined),
   Analysis(JsBool(TRUE), JsStr(<<"a","r","r","i","v","a","l">>), JsUndefined),
   Analysis(JsBool(TRUE), JsUndefined, JsUndefined),
   Analysis(JsUndefined, JsStr(ModeDepartures), JsUndefined),
   Analysis(JsBool(TRUE), JsStr(ModeBoth), JsBool(TRUE)),
   EmptyObj,
   JsNum(5),
   JsNull}
\* how the classification call can settle
ClassifierReplies ==
  {r \in AxiosErrors : r.status = 429 \/ r.code = "ECONNABORTED"}
  \cup {Resolved(JsUndefined), Resolved(EmptyObj),
        Resolved(JsObj([choices |-> JsArr(<<>>)])),
        Resolved(Completion(JsUndefined)),
        Resolved(Completion(JsNum(5))),
        Resolved(Completion(LlmText(JsonSyntaxError)))}
  \cup {Resolved(Completion(LlmText(v))) : v \in ParsedReplies}

AnswerText ==
  <<" ","T","h","e","r","e"," ","a","r","e"," ","2"," ","f","l","i","g","h","t","s"," ","f","r","o","m"," ","G","e","r","m","a","n","y"," ","t","o","d","a","y","."," ">>
\* how the generation call can settle
GeneratorReplies ==
  AxiosErrors
  \cup {Resolved(EmptyObj),
        Resolved(JsObj([choices |-> JsArr(<<>>)])),
        Resolved(Completion(JsStr(<<>>))),
        Resolved(Completion(JsStr(<<" ", " ">>))),
        Resolved(Completion(JsNum(5))),
        Resolved(Completion(JsStr(AnswerText)))}

NameBerlin ==
  <<"B","e","r","l","i","n">>
NameMunich ==
  <<"M","u","n","i","c","h">>
NameParis ==
  <<"P","a","r","i","s">>
NameGermany ==
  <<"G","e","r","m","a","n","y">>
NameFrance ==
  <<"F","r","a","n","c","e">>
NameLufthansa ==
  <<"L","u","f","t","h","a","n","s","a">>
NameBritishAirways ==
  <<"B","r","i","t","i","s","h"," ","A","i","r","w","a","y","s">>

\* the counterpart-airport descriptor of a flight
AirportObj(name, iata, countryName, countryCode) ==
  ObjOf({<<"name", name>>,
         <<"code", ObjOf({<<"iata", iata>>})>>,
         <<"position", ObjOf({<<"country", ObjOf({<<"name", countryName>>,
                                                  <<"code", countryCode>>})>>})>>})
AirlineObj(name, iata) ==
  ObjOf({<<"name", name>>, <<"code", ObjOf({<<"iata", iata>>})>>})
\* one element of a schedule's data array
FlightEntry(counterpart, airport, airline, number, callsign) ==
  JsObj([flight |->
    ObjOf({<<"airport", ObjOf({<<counterpart, airport>>})>>,
           <<"airline", airline>>,
           <<"identification", ObjOf({<<"number", ObjOf({<<"default", number>>})>>,
                                      <<"callsign", callsign>>})>>})])

EntryBerlinLufthansa(c) ==
  FlightEntry(c, AirportObj(JsStr(NameBerlin), JsStr(<<"B","E","R">>), JsStr(NameGermany), JsStr(<<"D","E">>)),
              AirlineObj(JsStr(NameLufthansa), JsStr(<<"L","H">>)), JsStr(<<"L","H","1">>), JsUndefined)
EntryMunichLufthansa(c) ==
  FlightEntry(c, AirportObj(JsStr(NameMunich), JsStr(<<"M","U","C">>), JsStr(NameGermany), JsStr(<<"D","E">>)),
              AirlineObj(JsStr(NameLufthansa), JsStr(<<"L","H">>)), JsStr(<<"L","H","2">>), JsUndefined)
EntryParisBritish(c) ==
  FlightEntry(c, AirportObj(JsStr(NameParis), JsStr(<<"C","D","G">>), JsStr(NameFrance), JsStr(<<"F","R">>)),
              AirlineObj(JsStr(NameBritishAirways), JsStr(<<"B","A">>)), JsUndefined, JsStr(<<"B","A","W","3">>))
\* only the fallback fields: an empty airport name, no country name, no airline name
EntryCodesOnly(c) ==
  FlightEntry(c, AirportObj(JsStr(<<>>), JsStr(<<"M","U","C">>), JsUndefined, JsStr(<<"D","E">>)),
              AirlineObj(JsUndefined, JsStr(<<"L","H">>)), JsUndefined, JsUndefined)
\* an airport descriptor without fields, no airline
EntryNoFields(c) ==
  FlightEntry(c, EmptyObj, JsUndefined, JsUndefined, JsUndefined)
\* no airport at all, an airline without name and code
EntryNoAirport(c) ==
  FlightEntry(c, JsUndefined, EmptyObj, JsUndefined, JsUndefined)
\* an airport and a country whose names are decimal numerals
EntryNumberedNames(c) ==
  FlightEntry(c, AirportObj(JsStr(<<"7">>), JsStr(<<"S","V","N">>), JsStr(<<"4","4">>), JsStr(<<"G","B">>)),
              AirlineObj(JsStr(NameBritishAirways), JsStr(<<"B","A">>)), JsStr(<<"B","A","7">>), JsUndefined)
\* an element without the flight wrapper
EntryNoFlight == EmptyObj

\* the elements the schedule arrays are made of
FlightEntries(c) ==
  {EntryBerlinLufthansa(c), EntryMunichLufthansa(c), EntryParisBritish(c),
   EntryCodesOnly(c), EntryNoFields(c), EntryNoAirport(c), EntryNumberedNames(c),
   EntryNoFlight, JsNull}

\* response.data of a schedule call for direction dir ("arrivals"/"departures")
SchedulePayload(dir, list) ==
  JsObj([airport |-> JsObj([pluginData |-> JsObj([schedule |->
    ObjOf({<<dir, JsObj([data |-> JsArr(list)])>>})])])])

CounterpartOf(dir) == IF dir = "arrivals" THEN "origin" ELSE "destination"
\* how a schedule call can settle
ScheduleReplies(dir) ==
  LET c == CounterpartOf(dir)
  IN {r \in AxiosErrors : r.status # 402}
     \cup {Resolved(EmptyObj),
           Resolved(JsObj([airport |-> JsNull])),
           Resolved(SchedulePayload(dir, <<>>)),
           Resolved(SchedulePayload(dir, <<EntryBerlinLufthansa(c), EntryCodesOnly(c),
                                          EntryMunichLufthansa(c)>>)),
           Resolved(SchedulePayload(dir, <<EntryNoFlight>>)),
           Resolved(SchedulePayload(dir, <<EntryParisBritish(c), JsNull>>))}


-----------------------------------------------------------------------------
(* One request through the middleware and the handler *)

\* the longest time one awaited call takes, in clock ticks
MaxDelay == 1

None == [t |-> "none"]
NotSettled == [classify |-> None, arrivals |-> None, departures |-> None, generate |-> None]
NoCalls ==
  [classifier |-> 0, fetcher |-> 0, scheduleArrivals |-> 0, scheduleDepartures |-> 0,
   aggregator |-> 0, generator |-> 0]

\* App: the refs of the component as setup leaves them
InitialMessage == "Preparing your request..."
AppRefs ==
  [loading |-> FALSE, result |-> JsNull, currentStep |-> 0, loadingMessage |-> InitialMessage]

\* FlightForm: the refs of the component as setup leaves them
NoErrors == [k \in {} |-> ""]
FormRefs ==
  [selectedAirport |-> <<>>, question |-> <<>>, selectedDate |-> JsNull, loading |-> FALSE,
   errors |-> NoErrors]

\* setTimeout(callback, delay) called at this time; the callback is one of App's
\* two: the welcome toast, or a loading step started by the request-th submit
Timeout(kind, step, message, delay, request_, at) ==
  [kind |-> kind, step |-> step, message |-> message, due |-> at + delay, request |-> request_]
WelcomeDelay == 1000

\* the browser after App and FlightForm are mounted
Mounted ==
  /\ app = AppRefs
  /\ form = FormRefs
  /\ timers = <<Timeout("welcome", 0, "", WelcomeDelay, 0, 0)>>
  /\ clock = 0
  /\ request = None
  /\ emitted = <<>>
  /\ toast = ""

Init ==
  /\ pc = "middleware"
  /\ req \in Requests
  /\ body = None
  /\ now = 0
  /\ startTime = 0
  /\ modeAnalysis = None
  /\ fetch = None
  /\ rawFlightData = None
  /\ processedData = None
  /\ thrown = None
  /\ calls = NoCalls
  /\ trace = <<>>
  /\ settled = NotSettled
  /\ sent = <<>>
  /\ Mounted

Called(stage) == [calls EXCEPT ![stage] = @ + 1]

\* validateQueryRequest: a 400 response, or the sanitised body and next()
Middleware ==
  /\ pc = "middleware"
  /\ \E r \in {validateQueryRequest(req)} :
        IF r.next
        THEN /\ body' = r.body
             /\ pc' = "handler"
             /\ sent' = sent
        ELSE /\ sent' = Append(sent, [status |-> r.status, json |-> r.json])
             /\ pc' = "done"
             /\ body' = body
  /\ UNCHANGED <<browser, settled, req, now, startTime, modeAnalysis, fetch, rawFlightData,
                 processedData, thrown, calls, trace>>

\* the handler up to its first await: startTime, the call of the Classifier
HandlerStart ==
  /\ pc = "handler"
  /\ startTime' = now
  /\ calls' = Called("classifier")
  /\ trace' = Append(trace, "classify")
  /\ pc' = "awaitClassify"
  /\ UNCHANGED <<browser, settled, req, body, now, modeAnalysis, fetch, rawFlightData,
                 processedData, thrown, sent>>

\* the classification call settles and analyzeQuestionForMode returns
ClassifySettles ==
  /\ pc = "awaitClassify"
  /\ \E llm \in ClassifierReplies, d \in {0, MaxDelay} :
       /\ now' = now + d
       /\ settled' = [settled EXCEPT !.classify = llm]
       /\ \E result \in {analyzeQuestionForMode(body.question.s, llm)} :
             IF IsThrown(result)
             THEN /\ thrown' = result
                  /\ pc' = "catch"
                  /\ modeAnalysis' = modeAnalysis
             ELSE /\ modeAnalysis' = result
                  /\ pc' = "classified"
                  /\ thrown' = thrown
  /\ UNCHANGED <<browser, req, body, startTime, fetch, rawFlightData, processedData,
                 calls, trace, sent>>

\* getAirportSchedule from its call to its first await, or to its return when
\* the mode asks for neither direction
StartFetch(airportCode, dayParam, modeArg) ==
  LET mode == ModeParam(modeArg)
      f == [arguments |-> [airportCode |-> airportCode, dayParam |-> dayParam,
                           mode |-> modeArg],
            airportCode |-> airportCode,
            validDayParam |-> ValidDayParam(dayParam),
            mode |-> mode,
            rawResult |-> EmptyObj]
  IN /\ fetch' = f
     /\ trace' = Append(trace, "fetch")
     /\ IF WantsArrivals(mode)
        THEN /\ calls' = [Called("fetcher") EXCEPT !.scheduleArrivals = @ + 1]
             /\ pc' = "awaitArrivals"
             /\ rawFlightData' = rawFlightData
        ELSE IF WantsDepartures(mode)
        THEN /\ calls' = [Called("fetcher") EXCEPT !.scheduleDepartures = @ + 1]
             /\ pc' = "awaitDepartures"
             /\ rawFlightData' = rawFlightData
        ELSE /\ calls' = Called("fetcher")
             /\ pc' = "fetched"
             /\ rawFlightData' =
                  ScheduleResult(f.airportCode, f.validDayParam, f.mode, f.rawResult)

\* a day parameter without the default; C21_DayAndModeHandedOn tells it from
\* DayParam
DayParamNoDefault(date) == date

\* const dayParam = date || 1
DayParam(date) == Or(date, JsNum(1))

\* a relevance branch that ignores the skip flag; C2_Skipped tells it from
\* ShouldSkip
ShouldSkipIrrelevantOnly(analysis) == Get(analysis, "relevant") = JsBool(FALSE)

\* modeAnalysis.shouldSkipAPI || modeAnalysis.relevant === false
ShouldSkip(analysis) ==
  Truthy(Get(analysis, "shouldSkipAPI")) \/ Get(analysis, "relevant") = JsBool(FALSE)

\* the handler after the Classifier returned: the relevance branch, or the
\* call of the Fetcher
AfterClassify ==
  /\ pc = "classified"
  /\ IF ShouldSkip(modeAnalysis)
     THEN /\ sent' = Append(sent, SkippedResponse(body, modeAnalysis, now - startTime))
          /\ pc' = "done"
          /\ UNCHANGED <<fetch, rawFlightData, calls, trace>>
     ELSE /\ StartFetch(body.airport.s, DayParam(body.date), Get(modeAnalysis, "mode"))
          /\ sent' = sent
  /\ UNCHANGED <<browser, settled, req, body, now, startTime, modeAnalysis, processedData, thrown>>

\* the arrivals call settles
ArrivalsSettle ==
  /\ pc = "awaitArrivals"
  /\ \E r \in ScheduleReplies("arrivals"), d \in {0, MaxDelay} :
       /\ now' = now + d
       /\ settled' = [settled EXCEPT !.arrivals = r]
       /\ IF r.settled = "rejected"
          THEN /\ thrown' = FetcherError(r, fetch.airportCode)
               /\ pc' = "catch"
               /\ UNCHANGED <<fetch, rawFlightData, calls>>
          ELSE \E raw \in {SetKey(fetch.rawResult, "arrivals", r.data)} :
                  /\ fetch' = [fetch EXCEPT !.rawResult = raw]
                  /\ thrown' = thrown
                  /\ IF WantsDepartures(fetch.mode)
                     THEN /\ calls' = Called("scheduleDepartures")
                          /\ pc' = "awaitDepartures"
                          /\ rawFlightData' = rawFlightData
                     ELSE /\ calls' = calls
                          /\ pc' = "fetched"
                          /\ rawFlightData' =
                               ScheduleResult(fetch.airportCode, fetch.validDayParam,
                                              fetch.mode, raw)
  /\ UNCHANGED <<browser, req, body, startTime, modeAnalysis, processedData, trace, sent>>

\* a departures call whose failure is swallowed: the Fetcher returns what the
\* arrivals call delivered; C27_SequentialAllOrNothing tells it from
\* DeparturesSettle
DeparturesSettlePartial ==
  /\ pc = "awaitDepartures"
  /\ \E r \in ScheduleReplies("departures"), d \in {0, MaxDelay} :
       /\ now' = now + d
       /\ settled' = [settled EXCEPT !.departures = r]
       /\ \E raw \in {IF r.settled = "rejected" THEN fetch.rawResult
                      ELSE SetKey(fetch.rawResult, "departures", r.data)} :
            /\ fetch' = [fetch EXCEPT !.rawResult = raw]
            /\ thrown' = thrown
            /\ pc' = "fetched"
            /\ rawFlightData' =
                 ScheduleResult(fetch.airportCode, fetch.validDayParam, fetch.mode, raw)
  /\ UNCHANGED <<browser, req, body, startTime, modeAnalysis, processedData, calls, trace, sent>>

\* the departures call settles
DeparturesSettle ==
  /\ pc = "awaitDepartures"
  /\ \E r \in ScheduleReplies("departures"), d \in {0, MaxDelay} :
       /\ now' = now + d
       /\ settled' = [settled EXCEPT !.departures = r]
       /\ IF r.settled = "rejected"
          THEN /\ thrown' = FetcherError(r, fetch.airportCode)
               /\ pc' = "catch"
               /\ UNCHANGED <<fetch, rawFlightData>>
          ELSE \E raw \in {SetKey(fetch.rawResult, "departures", r.data)} :
                  /\ fetch' = [fetch EXCEPT !.rawResult = raw]
                  /\ thrown' = thrown
                  /\ pc' = "fetched"
                  /\ rawFlightData' =
                       ScheduleResult(fetch.airportCode, fetch.validDayParam,
                                      fetch.mode, raw)
  /\ UNCHANGED <<browser, req, body, startTime, modeAnalysis, processedData, calls, trace, sent>>

\* an empty check written !arrivals && !departures, which an empty array
\* passes; C3_NoFlightData tells it from NoFlightData
NoFlightDataFalsyLists(data) == ~Truthy(data.arrivals) /\ ~Truthy(data.departures)

\* rawFlightData.arrivals.length === 0 && rawFlightData.departures.length === 0
NoFlightData(data) == Len(data.arrivals.a) = 0 /\ Len(data.departures.a) = 0

\* the handler after the Fetcher returned: the empty check, the Aggregator and
\* the call of the Generator
AfterFetch ==
  /\ pc = "fetched"
  /\ IF NoFlightData(rawFlightData)
     THEN /\ sent' = Append(sent, NoFlightDataResponse(body, rawFlightData))
          /\ pc' = "done"
          /\ UNCHANGED <<processedData, thrown, calls, trace>>
     ELSE \E processed \in {processFlightData(rawFlightData)} :
             /\ sent' = sent
             /\ IF "t" \in DOMAIN processed
                THEN /\ thrown' = processed
                     /\ pc' = "catch"
                     /\ calls' = Called("aggregator")
                     /\ trace' = Append(trace, "aggregate")
                     /\ processedData' = processedData
                ELSE /\ processedData' = processed
                     /\ pc' = "awaitGenerate"
                     /\ calls' = [Called("aggregator") EXCEPT !.generator = @ + 1]
                     /\ trace' = trace \o <<"aggregate", "generate">>
                     /\ thrown' = thrown
  /\ UNCHANGED <<browser, settled, req, body, now, startTime, modeAnalysis, fetch, rawFlightData>>

\* the generation call settles, generateAnswer returns or throws, and the
\* handler sends the answer
GenerateSettles ==
  /\ pc = "awaitGenerate"
  /\ \E llm \in GeneratorReplies, d \in {0, MaxDelay} :
       /\ now' = now + d
       /\ settled' = [settled EXCEPT !.generate = llm]
       /\ \E answer \in {generateAnswer(llm)} :
             IF IsThrown(answer)
             THEN /\ thrown' = answer
                  /\ pc' = "catch"
                  /\ sent' = sent
             ELSE /\ sent' = Append(sent, AnsweredResponse(body, modeAnalysis, processedData,
                                                           answer, now' - startTime))
                  /\ pc' = "done"
                  /\ thrown' = thrown
  /\ UNCHANGED <<browser, req, body, startTime, modeAnalysis, fetch, rawFlightData,
                 processedData, calls, trace>>

\* a catch block that ends the request without a response; C14_OneResponse
\* tells it from Catch
CatchSilent ==
  /\ pc = "catch"
  /\ pc' = "done"
  /\ UNCHANGED <<browser, settled, req, body, now, startTime, modeAnalysis, fetch, rawFlightData,
                 processedData, thrown, calls, trace, sent>>

\* a catch block that starts the handler again; C13_StageOrder tells it from
\* Catch
CatchRetries ==
  /\ pc = "catch"
  /\ pc' = "handler"
  /\ UNCHANGED <<browser, settled, req, body, now, startTime, modeAnalysis, fetch, rawFlightData,
                 processedData, thrown, calls, trace, sent>>

\* the handler's catch block
Catch ==
  /\ pc = "catch"
  /\ sent' = Append(sent, ErrorResponse(body, thrown.message, now - startTime))
  /\ pc' = "done"
  /\ UNCHANGED <<browser, settled, req, body, now, startTime, modeAnalysis, fetch, rawFlightData,
                 processedData, thrown, calls, trace>>

Next ==
  \/ Middleware
  \/ HandlerStart
  \/ ClassifySettles
  \/ AfterClassify
  \/ ArrivalsSettle
  \/ DeparturesSettle
  \/ AfterFetch
  \/ GenerateSettles
  \/ Catch

Spec == Init /\ [][Next]_vars


-----------------------------------------------------------------------------
(* The Classifier on composed questions: a client types a question word by    *)
(* word and submits it; the middleware and the handler run up to the point    *)
(* where analyzeQuestionForMode has returned                                  *)

\* the most words the client types
MaxWords == 3

\* the words the client chooses from, each followed by a space
QuestionTokens ==
  {<<"W","h","a","t","'","s"," ">>,
   <<"F","l","i","g","h","t","?"," ">>,
   <<"f","l","y"," ">>,
   <<"t","o"," ">>,
   <<"f","r","o","m"," ">>,
   <<"n","a","v","i","g","a","t","e"," ">>,
   <<"l","e","a","v","i","n","g"," ">>}

\* the words typed so far: each ends with the only space it contains
WordCount(s) == Cardinality({i \in DOMAIN s : s[i] = " "})

TypedQuestion == Get(req, "question").s

\* a question with characters that sanitizeQuestion removes
QuestionRoute == <<"A","-",">","B","?">>

ClassifyInit ==
  /\ pc = "typing"
  /\ \E q \in {JsStr(<<>>), JsStr(QuestionRoute)} \cup ValidQuestionInputs :
       req = RequestBody(JsStr(<<"l","h","r">>), q, JsUndefined)
  /\ body = None
  /\ now = 0
  /\ startTime = 0
  /\ modeAnalysis = None
  /\ fetch = None
  /\ rawFlightData = None
  /\ processedData = None
  /\ thrown = None
  /\ calls = NoCalls
  /\ trace = <<>>
  /\ settled = NotSettled
  /\ sent = <<>>
  /\ Mounted

\* the client appends a word to the question field
ClientTypes ==
  /\ pc = "typing"
  /\ \E token \in QuestionTokens :
       /\ WordCount(TypedQuestion) < MaxWords
       /\ req' = SetKey(req, "question", JsStr(TypedQuestion \o token))
  /\ UNCHANGED <<browser, settled, pc, body, now, startTime, modeAnalysis, fetch, rawFlightData,
                 processedData, thrown, calls, trace, sent>>

\* the client posts the request
ClientSubmits ==
  /\ pc = "typing"
  /\ pc' = "middleware"
  /\ UNCHANGED <<browser, settled, req, body, now, startTime, modeAnalysis, fetch, rawFlightData,
                 processedData, thrown, calls, trace, sent>>

ClassifyNext ==
  \/ ClientTypes
  \/ ClientSubmits
  \/ Middleware
  \/ HandlerStart
  \/ ClassifySettles

SpecClassify == ClassifyInit /\ [][ClassifyNext]_vars

-----------------------------------------------------------------------------
(* The Aggregator on composed flight lists: the schedule payloads grow one    *)
(* element at a time, then processFlightData is applied to the Fetcher's      *)
(* result for them                                                            *)

\* the most elements the two schedule arrays hold together
MaxFlights == 3

AirportLHR ==
  <<"L","H","R">>

\* the Fetcher's result for mode 'both' and these two data arrays
FetchedLists(arrivals, departures) ==
  ScheduleResult(AirportLHR, JsNum(1), JsStr(ModeBoth),
                 JsObj([arrivals |-> SchedulePayload("arrivals", arrivals),
                        departures |-> SchedulePayload("departures", departures)]))

AggregateInit ==
  /\ pc = "fetched"
  /\ rawFlightData = FetchedLists(<<>>, <<>>)
  /\ req = None
  /\ body = None
  /\ now = 0
  /\ startTime = 0
  /\ modeAnalysis = None
  /\ fetch = None
  /\ processedData = None
  /\ thrown = None
  /\ calls = NoCalls
  /\ trace = <<>>
  /\ settled = NotSettled
  /\ sent = <<>>
  /\ Mounted

\* the upstream arrivals array has one more element
UpstreamAddsArrival ==
  /\ pc = "fetched"
  /\ Len(rawFlightData.arrivals.a) + Len(rawFlightData.departures.a) < MaxFlights
  /\ \E e \in FlightEntries("origin") :
       rawFlightData' = FetchedLists(Append(rawFlightData.arrivals.a, e),
                                     rawFlightData.departures.a)
  /\ UNCHANGED <<browser, settled, pc, req, body, now, startTime, modeAnalysis, fetch, processedData,
                 thrown, calls, trace, sent>>

\* the upstream departures array has one more element
UpstreamAddsDeparture ==
  /\ pc = "fetched"
  /\ Len(rawFlightData.arrivals.a) + Len(rawFlightData.departures.a) < MaxFlights
  /\ \E e \in FlightEntries("destination") :
       rawFlightData' = FetchedLists(rawFlightData.arrivals.a,
                                     Append(rawFlightData.departures.a, e))
  /\ UNCHANGED <<browser, settled, pc, req, body, now, startTime, modeAnalysis, fetch, processedData,
                 thrown, calls, trace, sent>>

\* processFlightData(rawFlightData) returns, or throws
Aggregate ==
  /\ pc = "fetched"
  /\ LET processed == processFlightData(rawFlightData)
     IN IF "t" \in DOMAIN processed
        THEN /\ thrown' = processed
             /\ processedData' = processedData
             /\ pc' = "catch"
        ELSE /\ processedData' = processed
             /\ thrown' = thrown
             /\ pc' = "aggregated"
  /\ calls' = Called("aggregator")
  /\ trace' = Append(trace, "aggregate")
  /\ UNCHANGED <<browser, settled, req, body, now, startTime, modeAnalysis, fetch, rawFlightData, sent>>

AggregateNext ==
  \/ UpstreamAddsArrival
  \/ UpstreamAddsDeparture
  \/ Aggregate

SpecAggregate == AggregateInit /\ [][AggregateNext]_vars


-----------------------------------------------------------------------------
(* The Fetcher on its own: getAirportSchedule is called with an airport code, *)
(* a day parameter and a mode, and its schedule calls settle                  *)

FetchAirports == {AirportLHR, <<"l","h","r">>}
FetchDayParams ==
  {JsUndefined, JsNull, JsNum(-2), JsNum(-1), JsNum(0), JsNum(1), JsNum(2), JsNum(3),
   JsStr(<<"2">>), JsStr(<<"s","o","o","n">>), JsBool(TRUE)}
FetchModes ==
  {JsUndefined, JsStr(ModeArrivals), JsStr(ModeDepartures), JsStr(ModeBoth), JsStr(ModeNone)}

\* the arguments of the call are kept in req
FetchInit ==
  /\ pc = "callFetcher"
  /\ req \in [airportCode : FetchAirports, dayParam : FetchDayParams, mode : FetchModes]
  /\ body = None
  /\ now = 0
  /\ startTime = 0
  /\ modeAnalysis = None
  /\ fetch = None
  /\ rawFlightData = None
  /\ processedData = None
  /\ thrown = None
  /\ calls = NoCalls
  /\ trace = <<>>
  /\ settled = NotSettled
  /\ sent = <<>>
  /\ Mounted

\* getAirportSchedule(airportCode, dayParam, mode) is called
FetcherCalled ==
  /\ pc = "callFetcher"
  /\ StartFetch(req.airportCode, req.dayParam, req.mode)
  /\ UNCHANGED <<browser, settled, req, body, now, startTime, modeAnalysis, processedData,
                 thrown, sent>>

FetchNext ==
  \/ FetcherCalled
  \/ ArrivalsSettle
  \/ DeparturesSettle

SpecFetch == FetchInit /\ [][FetchNext]_vars

-----------------------------------------------------------------------------
(* The response of the success path on long schedules: the upstream array of   *)
(* one direction grows flight by flight, each from a country not seen before  *)
(* or from the country of the flight before it; then the handler aggregates,  *)
(* calls the Generator and answers                                            *)

\* the longest schedule, and the most flights that repeat a country
MaxListed == 12
MaxRepeats == 2

\* the countries of the flights, in the order in which they first appear
CountryNames ==
  <<<<"G","e","r","m","a","n","y">>,
    <<"F","r","a","n","c","e">>,
    <<"S","p","a","i","n">>,
    <<"I","t","a","l","y">>,
    <<"N","o","r","w","a","y">>,
    <<"S","w","e","d","e","n">>,
    <<"P","o","l","a","n","d">>,
    <<"G","r","e","e","c","e">>,
    <<"T","u","r","k","e","y">>,
    <<"E","g","y","p","t">>,
    <<"4","4">>,
    <<"J","a","p","a","n">>,
    <<"K","e","n","y","a">>,
    <<"C","h","i","l","e">>>>
\* a flight whose counterpart airport lies in the i-th country
CountryEntry(c, i) ==
  FlightEntry(c, AirportObj(JsStr(CountryNames[i]), JsUndefined, JsStr(CountryNames[i]),
                            JsUndefined),
              AirlineObj(JsStr(NameLufthansa), JsStr(<<"L","H">>)), JsUndefined, JsUndefined)

RespondRequest == RequestBody(JsStr(AirportLHR), JsStr(QuestionAirlines), JsUndefined)
RespondInit ==
  /\ pc = "fetched"
  /\ req = RespondRequest
  /\ body = validateQueryRequest(RespondRequest).body
  /\ modeAnalysis =
       analyzeQuestionForMode(QuestionAirlines,
         Resolved(Completion(LlmText(Analysis(JsBool(TRUE), JsStr(ModeBoth), JsUndefined)))))
  /\ rawFlightData = FetchedLists(<<>>, <<>>)
  /\ now = 0
  /\ startTime = 0
  /\ fetch = None
  /\ processedData = None
  /\ thrown = None
  /\ calls = NoCalls
  /\ trace = <<>>
  /\ settled = NotSettled
  /\ sent = <<>>
  /\ Mounted

\* the Fetcher's result when the array of this direction is list and the other
\* array is empty
FetchedOneDirection(dir, list) ==
  IF dir = "arrivals" THEN FetchedLists(list, <<>>) ELSE FetchedLists(<<>>, list)
OtherDirection(dir) == IF dir = "arrivals" THEN "departures" ELSE "arrivals"

\* the upstream array has one more flight, from a country not seen before
UpstreamAddsNewCountry ==
  /\ pc = "fetched"
  /\ \E dir \in {"arrivals", "departures"} :
       \E list \in {rawFlightData[dir].a} :
         /\ rawFlightData[OtherDirection(dir)].a = <<>>
         /\ Len(list) < MaxListed
         /\ Cardinality(Range(list)) < Len(CountryNames)
         /\ rawFlightData' =
              FetchedOneDirection(dir,
                Append(list, CountryEntry(CounterpartOf(dir), Cardinality(Range(list)) + 1)))
  /\ UNCHANGED <<browser, settled, pc, req, body, now, startTime, modeAnalysis, fetch, processedData,
                 thrown, calls, trace, sent>>

\* the upstream array has one more flight, from the country of its last flight
UpstreamAddsSameCountry ==
  /\ pc = "fetched"
  /\ \E dir \in {"arrivals", "departures"} :
       \E list \in {rawFlightData[dir].a} :
         /\ list # <<>>
         /\ Len(list) < MaxListed
         /\ Len(list) - Cardinality(Range(list)) < MaxRepeats
         /\ rawFlightData' = FetchedOneDirection(dir, Append(list, list[Len(list)]))
  /\ UNCHANGED <<browser, settled, pc, req, body, now, startTime, modeAnalysis, fetch, processedData,
                 thrown, calls, trace, sent>>

RespondNext ==
  \/ UpstreamAddsNewCountry
  \/ UpstreamAddsSameCountry
  \/ AfterFetch
  \/ GenerateSettles
  \/ Catch

SpecRespond == RespondInit /\ [][RespondNext]_vars

-----------------------------------------------------------------------------
(* The browser: FlightForm sends the query, App shows the loading steps and   *)
(* the result                                                                 *)

\* time stops at MaxClock milliseconds; the form sends at most MaxSubmits queries
MaxClock == 2500
MaxSubmits == 2
\* the delays of all timeouts are multiples of this many milliseconds
TimeUnit == 500

MsgNetworkError ==
  <<"N","e","t","w","o","r","k"," ","e","r","r","o","r","."," ","P","l","e","a","s","e"," ","c","h","e","c","k"," ","y","o","u","r"," ","i","n","t","e","r","n","e","t"," ","c","o","n","n","e","c","t","i","o","n",".">>
MsgInvalidRequest ==
  <<"I","n","v","a","l","i","d"," ","r","e","q","u","e","s","t","."," ","P","l","e","a","s","e"," ","c","h","e","c","k"," ","y","o","u","r"," ","i","n","p","u","t",".">>
MsgAuthenticationFailed ==
  <<"A","u","t","h","e","n","t","i","c","a","t","i","o","n"," ","f","a","i","l","e","d","."," ","P","l","e","a","s","e"," ","c","h","e","c","k"," ","A","P","I"," ","c","r","e","d","e","n","t","i","a","l","s",".">>
MsgNotFound ==
  <<"R","e","q","u","e","s","t","e","d"," ","d","a","t","a"," ","n","o","t"," ","f","o","u","n","d",".">>
MsgRateLimit ==
  <<"R","a","t","e"," ","l","i","m","i","t"," ","e","x","c","e","e","d","e","d","."," ","P","l","e","a","s","e"," ","t","r","y"," ","a","g","a","i","n"," ","l","a","t","e","r",".">>
MsgServerError ==
  <<"S","e","r","v","e","r"," ","e","r","r","o","r","."," ","P","l","e","a","s","e"," ","t","r","y"," ","a","g","a","i","n"," ","l","a","t","e","r",".">>
MsgServiceUnavailable ==
  <<"E","x","t","e","r","n","a","l"," ","s","e","r","v","i","c","e"," ","u","n","a","v","a","i","l","a","b","l","e","."," ","P","l","e","a","s","e"," ","t","r","y"," ","a","g","a","i","n"," ","l","a","t","e","r",".">>
MsgRequestTimeout ==
  <<"R","e","q","u","e","s","t"," ","t","i","m","e","o","u","t","."," ","P","l","e","a","s","e"," ","t","r","y"," ","a","g","a","i","n",".">>
MsgAirportRequired ==
  <<"A","i","r","p","o","r","t"," ","c","o","d","e"," ","i","s"," ","r","e","q","u","i","r","e","d">>

\* `Unexpected error (${status}). Please try again.`
MsgUnexpected(status) ==
  <<"U","n","e","x","p","e","c","t","e","d"," ","e","r","r","o","r"," ","(">>
  \o <<DigitChars[((status \div 100) % 10) + 1], DigitChars[((status \div 10) % 10) + 1],
       DigitChars[(status % 10) + 1]>>
  \o <<")","."," ","P","l","e","a","s","e"," ","t","r","y"," ","a","g","a","i","n",".">>

\* an axios error: error.response is absent, or has a status and a body
NetworkFailure == [settled |-> "rejected", response |-> None]
HttpFailure(status, data) ==
  [settled |-> "rejected", response |-> [status |-> status, data |-> data]]

\* ApiService.transformError: the message of the Error it returns
transformError(error) ==
  IF error.response = None THEN MsgNetworkError
  ELSE LET status == error.response.status
           data == error.response.data
           ErrorOr(default) ==
             IF Truthy(Get(data, "error")) THEN Get(data, "error").s ELSE default
       IN CASE status = 400 -> ErrorOr(MsgInvalidRequest)
            [] status = 401 -> MsgAuthenticationFailed
            [] status = 404 -> ErrorOr(MsgNotFound)
            [] status = 429 -> MsgRateLimit
            [] status = 500 -> ErrorOr(MsgServerError)
            [] status = 502 -> MsgServiceUnavailable
            [] status = 504 -> MsgRequestTimeout
            [] OTHER -> ErrorOr(MsgUnexpected(status))

\* the body ApiService.queryFlights posts
queryFlights(airport, question_, date) ==
  JsObj([airport |-> JsStr(toUpperCase(airport)), question |-> JsStr(trim(question_)),
         date |-> date])

\* the ways the POST settles: response.data of a 2xx, or an axios error
QueryAnswer ==
  JsObj([success |-> JsBool(TRUE), airport |-> JsStr(AirportLHR), answer |-> JsStr(AnswerText)])
ApiReplies ==
  {Resolved(QueryAnswer), Resolved(JsNull), NetworkFailure,
   HttpFailure(400, JsObj([success |-> JsBool(FALSE), error |-> JsStr(MsgAirportRequired)]))}

\* what the user can put into the form's fields (the textarea has maxlength 500)
FormQuestions == {<<>>, <<"H","i","?">>, QuestionArrivedFromGermany}
FormDates == {JsNull, JsNum(2)}

\* FlightForm.validateForm: the errors object it leaves in errors.value
validateForm(f) ==
  LET airportMissing == f.selectedAirport = <<>>
      q == trim(f.question)
      questionError ==
        IF q = <<>> THEN "Please enter a question"
        ELSE IF Len(q) < 5 THEN "Question must be at least 5 characters long"
        ELSE IF Len(q) > 500 THEN "Question must be less than 500 characters"
        ELSE ""
  IN [k \in (IF airportMissing THEN {"airport"} ELSE {})
            \cup (IF questionError # "" THEN {"question"} ELSE {}) |->
        IF k = "airport" THEN "Please select an airport" ELSE questionError]

\* an event FlightForm emits while it handles its request-th query
Event(name, arg, request_) == [name |-> name, arg |-> arg, request |-> request_]
\* the queries FlightForm has sent so far
Sent ==
  Cardinality({i \in DOMAIN emitted : emitted[i].name = "loading" /\ emitted[i].arg.b})

\* App.startLoadingSequence: the three timeouts it sets
LoadingSteps ==
  <<[step |-> 1, message |-> "Fetching flight data from FlightAPI.io...", delay |-> 500],
    [step |-> 2, message |-> "Processing flight information...", delay |-> 1500],
    [step |-> 3, message |-> "Generating AI analysis with Gemini Flash...", delay |-> 2500]>>
startLoadingSequence(request_) ==
  [i \in DOMAIN LoadingSteps |->
     Timeout("step", LoadingSteps[i].step, LoadingSteps[i].message, LoadingSteps[i].delay,
             request_, clock)]

\* App.handleLoading: the refs it leaves (the timeouts are set by the caller)
handleLoading(a, isLoading) ==
  IF isLoading THEN [a EXCEPT !.loading = TRUE, !.currentStep = 0]
  ELSE [a EXCEPT !.loading = FALSE, !.currentStep = 0, !.loadingMessage = InitialMessage]

\* App.handleQuery: reading .error of null or undefined throws after result was
\* cleared; the async function turns that into a rejected promise
handleQuery(a, queryResult) ==
  IF IsNullish(queryResult) THEN [a EXCEPT !.result = JsNull]
  ELSE IF Truthy(Get(queryResult, "error")) THEN [a EXCEPT !.result = JsNull]
  ELSE [a EXCEPT !.result = queryResult]
handleQueryToast(queryResult) ==
  IF IsNullish(queryResult) THEN toast
  ELSE IF Truthy(Get(queryResult, "error")) THEN "Request Failed"
  ELSE "Analysis Complete"

\* v-model of the airport dropdown
SelectAirport ==
  /\ form' = [form EXCEPT !.selectedAirport = AirportLHR]
  /\ form' # form
  /\ UNCHANGED <<server, app, timers, clock, request, emitted, toast>>

\* v-model of the question textarea, or a click on an example question
TypeQuestion ==
  /\ \E q \in FormQuestions : form' = [form EXCEPT !.question = q]
  /\ form' # form
  /\ UNCHANGED <<server, app, timers, clock, request, emitted, toast>>

\* v-model of the date dropdown
SelectDate ==
  /\ \E d \in FormDates : form' = [form EXCEPT !.selectedDate = d]
  /\ form' # form
  /\ UNCHANGED <<server, app, timers, clock, request, emitted, toast>>

\* FlightForm.handleSubmit up to its await. The submit button is disabled while
\* loading; its other condition, canSubmit, repeats what validateForm checks
SubmitForm ==
  /\ ~form.loading
  /\ \E errors \in {validateForm(form)} :
       IF DOMAIN errors # {}
       THEN /\ form' = [form EXCEPT !.errors = errors]
            /\ toast' = "Form Validation"
            /\ UNCHANGED <<app, timers, request, emitted>>
       ELSE /\ Sent < MaxSubmits
            /\ form' = [form EXCEPT !.errors = errors, !.loading = TRUE]
            /\ emitted' = Append(emitted, Event("loading", JsBool(TRUE), Sent + 1))
            /\ app' = handleLoading(app, TRUE)
            /\ timers' = timers \o startLoadingSequence(Sent + 1)
            /\ toast' = "Processing Request"
            /\ request' =
                 [id |-> Sent + 1,
                  body |-> queryFlights(form.selectedAirport, trim(form.question),
                                        Or(form.selectedDate, JsNum(1)))]
  /\ UNCHANGED <<server, clock>>

\* handleSubmit without its finally block
QuerySettlesNoFinally ==
  /\ request # None
  /\ \E reply \in ApiReplies :
       \E queryResult \in
            {IF reply.settled = "resolved" THEN reply.data
             ELSE JsObj([error |-> JsStr(transformError(reply))])} :
         /\ emitted' = Append(emitted, Event("submit", queryResult, request.id))
         /\ app' = handleQuery(app, queryResult)
         /\ toast' = handleQueryToast(queryResult)
  /\ request' = None
  /\ UNCHANGED <<server, form, timers, clock>>

\* the awaited call settles: handleSubmit's try, catch and finally, with App's
\* handlers of the two events
QuerySettles ==
  /\ request # None
  /\ \E reply \in ApiReplies :
       \E queryResult \in
            {IF reply.settled = "resolved" THEN reply.data
             ELSE JsObj([error |-> JsStr(transformError(reply))])} :
         /\ emitted' = emitted \o <<Event("submit", queryResult, request.id),
                                    Event("loading", JsBool(FALSE), request.id)>>
         /\ app' = handleLoading(handleQuery(app, queryResult), FALSE)
         /\ toast' = handleQueryToast(queryResult)
  /\ form' = [form EXCEPT !.loading = FALSE]
  /\ request' = None
  /\ UNCHANGED <<server, timers, clock>>

\* the timeout the browser runs next: the earliest due, the first set among equals
NextTimeout ==
  CHOOSE i \in DOMAIN timers :
    \A j \in DOMAIN timers :
      timers[i].due < timers[j].due \/ (timers[i].due = timers[j].due /\ i <= j)
RemoveAt(s, i) == SubSeq(s, 1, i - 1) \o SubSeq(s, i + 1, Len(s))

\* the callback without its test of loading.value
TimeoutFiresAlways ==
  /\ timers # <<>>
  /\ \E t \in {timers[NextTimeout]} :
       /\ t.due <= clock
       /\ IF t.kind = "welcome"
          THEN toast' = "Welcome to Flight Assistant AI" /\ app' = app
          ELSE /\ toast' = toast
               /\ app' = [app EXCEPT !.currentStep = t.step, !.loadingMessage = t.message]
  /\ timers' = RemoveAt(timers, NextTimeout)
  /\ UNCHANGED <<server, form, clock, request, emitted>>

\* a timeout is due and its callback runs
TimeoutFires ==
  /\ timers # <<>>
  /\ \E t \in {timers[NextTimeout]} :
       /\ t.due <= clock
       /\ IF t.kind = "welcome"
          THEN toast' = "Welcome to Flight Assistant AI" /\ app' = app
          ELSE /\ toast' = toast
               /\ app' = IF app.loading
                         THEN [app EXCEPT !.currentStep = t.step, !.loadingMessage = t.message]
                         ELSE app
  /\ timers' = RemoveAt(timers, NextTimeout)
  /\ UNCHANGED <<server, form, clock, request, emitted>>

\* time passes when no timeout is due
Tick ==
  /\ clock < MaxClock
  /\ \A i \in DOMAIN timers : timers[i].due > clock
  /\ clock' = clock + TimeUnit
  /\ UNCHANGED <<server, app, form, timers, request, emitted, toast>>

\* the server side is not running
ServerIdle ==
  /\ pc = "idle"
  /\ req = None
  /\ body = None
  /\ now = 0
  /\ startTime = 0
  /\ modeAnalysis = None
  /\ fetch = None
  /\ rawFlightData = None
  /\ processedData = None
  /\ thrown = None
  /\ calls = NoCalls
  /\ trace = <<>>
  /\ settled = NotSettled
  /\ sent = <<>>

BrowserInit == ServerIdle /\ Mounted
BrowserNext ==
  \/ SelectAirport
  \/ TypeQuestion
  \/ SelectDate
  \/ SubmitForm
  \/ QuerySettles
  \/ TimeoutFires
  \/ Tick

SpecBrowser == BrowserInit /\ [][BrowserNext]_vars
-----------------------------------------------------------------------------
(* Properties *)

\* the one response of a finished request
Finished == pc = "done" /\ Len(sent) = 1
HasCode(r, code) == "code" \in DOMAIN r.json /\ r.json.code = code
HasElapsedTime(r) == "metadata" \in DOMAIN r.json /\ "responseTime" \in DOMAIN r.json.metadata
NoUpstreamCalls ==
  /\ calls.fetcher = 0
  /\ calls.scheduleArrivals = 0
  /\ calls.scheduleDepartures = 0
  /\ calls.generator = 0

DateAbsent(d) == d.t = "undefined" \/ d.t = "null"
IsDayNumber(d) == d.t = "number" /\ ~d.nan /\ d.n \in {-1, 1, 2}
MissingOrNotString(v) == v.t # "string" \/ v.s = <<>>
\* the validation failure of a request body in its airport and question, "" if none
FieldFailure(b) ==
  IF MissingOrNotString(Get(b, "airport")) THEN "INVALID_AIRPORT"
  ELSE IF toUpperCase(Get(b, "airport").s) \notin Range(validAirports) THEN "UNSUPPORTED_AIRPORT"
  ELSE IF MissingOrNotString(Get(b, "question")) THEN "INVALID_QUESTION"
  ELSE IF ~isValidQuestion(Get(b, "question")) THEN "INVALID_QUESTION_FORMAT"
  ELSE ""
\* ... and in its date, when the date has to be one of the numbers -1, 1, 2
StatedFailure(b) ==
  IF FieldFailure(b) # "" THEN FieldFailure(b)
  ELSE IF ~DateAbsent(Get(b, "date")) /\ ~IsDayNumber(Get(b, "date"))
  THEN "INVALID_DAY_PARAMETER"
  ELSE ""
\* ... and when the date has to convert to one of them
ConvertedFailure(b) ==
  IF FieldFailure(b) # "" THEN FieldFailure(b)
  ELSE IF ~DateAbsent(Get(b, "date")) /\ ~IsDayNumber(Number(Get(b, "date")))
  THEN "INVALID_DAY_PARAMETER"
  ELSE ""
RejectedWith(code) ==
  /\ Finished
  /\ sent[1].status = 400
  /\ HasCode(sent[1], code)
  /\ calls = NoCalls

\* C1 as stated: a request whose airport, question or date fails validation
\* (a date that is present and is not -1, 1 or 2 included) is answered with 400
\* and the matching code, with no call of Classifier, Fetcher or Generator.
C1_AsStated ==
  (pc # "middleware" /\ StatedFailure(req) # "") => RejectedWith(StatedFailure(req))

\* C1, amended: the same, where a date fails validation when it is present and
\* Number(date) is not -1, 1 or 2 (so "2" and true pass).
C1_ValidationFailure ==
  (pc # "middleware" /\ ConvertedFailure(req) # "") => RejectedWith(ConvertedFailure(req))

C1_Witness ==
  /\ ConvertedFailure(req) = "UNSUPPORTED_AIRPORT"
  /\ RejectedWith("UNSUPPORTED_AIRPORT")

SkipResult ==
  \/ Get(modeAnalysis, "relevant") = JsBool(FALSE)
  \/ Truthy(Get(modeAnalysis, "shouldSkipAPI"))

\* C2: when the Classifier's result has relevant=false or the skip flag, the
\* request ends Skipped (success, the fixed answer, analysis.relevant=false,
\* flightApiCalled=false) and Fetcher and Generator are never invoked.
C2_Skipped ==
  SkipResult =>
    /\ pc \in {"classified", "done"}
    /\ NoUpstreamCalls
    /\ pc = "done" =>
         /\ Len(sent) = 1
         /\ sent[1].status = 200
         /\ sent[1].json.success
         /\ sent[1].json.answer = JsStr(FixedAnswer)
         /\ sent[1].json.analysis.relevant = FALSE
         /\ sent[1].json.metadata.flightApiCalled = FALSE

C2_Witness ==
  /\ Finished
  /\ Get(modeAnalysis, "relevant") = JsBool(TRUE)
  /\ Truthy(Get(modeAnalysis, "shouldSkipAPI"))
  /\ sent[1].json.answer = JsStr(FixedAnswer)

FetchedEmpty ==
  /\ rawFlightData # None
  /\ Len(rawFlightData.arrivals.a) = 0
  /\ Len(rawFlightData.departures.a) = 0

\* C3: when the Fetcher returns an empty arrivals list and an empty departures
\* list, the request ends with 404 NO_FLIGHT_DATA and neither the Aggregator
\* nor the Generator is invoked.
C3_NoFlightData ==
  FetchedEmpty =>
    /\ pc \in {"fetched", "done"}
    /\ calls.aggregator = 0
    /\ calls.generator = 0
    /\ pc = "done" =>
         /\ Len(sent) = 1
         /\ sent[1].status = 404
         /\ HasCode(sent[1], "NO_FLIGHT_DATA")

C3_Witness ==
  /\ Finished
  /\ FetchedEmpty
  /\ settled.arrivals = Resolved(SchedulePayload("arrivals", <<>>))
  /\ sent[1].status = 404

ModeValues == {JsStr(ModeArrivals), JsStr(ModeDepartures), JsStr(ModeBoth), JsStr(ModeNone)}
ConfidenceValues == {JsStr(ConfidenceHigh), JsStr(ConfidenceMedium), JsStr(ConfidenceLow)}
IsModeAnalysis(v) ==
  /\ v.t = "object"
  /\ Get(v, "mode") \in ModeValues
  /\ Get(v, "confidence") \in ConfidenceValues
  /\ Get(v, "reasoning").t = "string"

\* the classification call: failed, or answered without choices, without text,
\* or with text that does not parse
CallFailed(r) == r # None /\ r.settled = "rejected"
ReplyChoices(r) == Get(r.data, "choices")
NoChoices(r) ==
  /\ r # None /\ r.settled = "resolved"
  /\ (ReplyChoices(r).t # "array" \/ ReplyChoices(r).a = <<>>)
ReplyText(r) == Get(Get(ReplyChoices(r).a[1], "message"), "content")
NoText(r) ==
  /\ r # None /\ r.settled = "resolved" /\ ~NoChoices(r)
  /\ ReplyText(r).t # "string"
Unparsable(r) ==
  /\ r # None /\ r.settled = "resolved" /\ ~NoChoices(r)
  /\ ReplyText(r).t = "string"
  /\ ReplyText(r).json = JsonSyntaxError

\* C4: the Classifier never passes an error on to the handler; for a failed
\* call, a reply without choices, without text or with unparsable text it
\* returns a ModeAnalysis, and for a failed call that is mode=arrivals,
\* confidence=low with the error-fallback reasoning.
C4_ClassifierAbsorbsErrors ==
  /\ pc # "catch"
  /\ thrown = None
  /\ settled.classify # None => pc = "classified"
  /\ ( \/ CallFailed(settled.classify)
       \/ NoChoices(settled.classify)
       \/ NoText(settled.classify)
       \/ Unparsable(settled.classify) ) => IsModeAnalysis(modeAnalysis)
  /\ CallFailed(settled.classify) =>
       /\ Get(modeAnalysis, "mode") = JsStr(ModeArrivals)
       /\ Get(modeAnalysis, "confidence") = JsStr(ConfidenceLow)
       /\ Get(modeAnalysis, "reasoning") = JsStr(ReasonErrorDefault)

C4_Witness ==
  /\ pc = "classified"
  /\ CallFailed(settled.classify)
  /\ Get(modeAnalysis, "mode") = JsStr(ModeArrivals)

ContainsAny(question, keywords) ==
  \E k \in keywords : includes(toLowerCase(question), k)
DestinationKeywords == {KwFlyTo, KwGoTo, KwDestination, KwDeparting, KwLeaving}
OriginKeywords == {KwFrom, KwArriving}

\* C5: for a reply that cannot be parsed the result follows from the question's
\* keywords: no aviation keyword gives relevant=false, mode=none and the skip
\* flag; otherwise a destination keyword gives departures, otherwise an origin
\* keyword gives arrivals, otherwise both; confidence is medium throughout;
\* "How many flights arrived from Germany?" gives arrivals.
C5_KeywordFallback ==
  Unparsable(settled.classify) =>
    LET q == body.question.s
    IN /\ Get(modeAnalysis, "confidence") = JsStr(ConfidenceMedium)
       /\ IF ~ContainsAny(q, Range(aviationKeywords))
          THEN /\ Get(modeAnalysis, "relevant") = JsBool(FALSE)
               /\ Get(modeAnalysis, "mode") = JsStr(ModeNone)
               /\ Get(modeAnalysis, "shouldSkipAPI") = JsBool(TRUE)
          ELSE /\ Get(modeAnalysis, "relevant") = JsBool(TRUE)
               /\ Get(modeAnalysis, "mode") =
                    IF ContainsAny(q, DestinationKeywords) THEN JsStr(ModeDepartures)
                    ELSE IF ContainsAny(q, OriginKeywords) THEN JsStr(ModeArrivals)
                    ELSE JsStr(ModeBoth)
       /\ Get(req, "question") = JsStr(QuestionArrivedFromGermany) =>
            Get(modeAnalysis, "mode") = JsStr(ModeArrivals)
       /\ Get(req, "question") = JsStr(QuestionWeather) =>
            Get(modeAnalysis, "relevant") = JsBool(FALSE)

\* a question with an aviation, a destination and an origin keyword
C5_Witness ==
  /\ Unparsable(settled.classify)
  /\ ContainsAny(body.question.s, Range(aviationKeywords))
  /\ ContainsAny(body.question.s, DestinationKeywords)
  /\ ContainsAny(body.question.s, OriginKeywords)
  /\ Get(modeAnalysis, "mode") = JsStr(ModeDepartures)

\* C6: in the keyword fallback a question containing "fly to", such as
\* "Which cities does BA fly to?", is classified as mode=departures.
C6_FlyToIsDepartures ==
  (Unparsable(settled.classify) /\ ContainsAny(body.question.s, {KwFlyTo})) =>
    Get(modeAnalysis, "mode") = JsStr(ModeDepartures)

RECURSIVE SumSizes(_)
SumSizes(groups) ==
  IF groups = <<>> THEN 0 ELSE Len(Head(groups).value) + SumSizes(Tail(groups))
HasFlight(e) == Truthy(Get(e, "flight"))
NumWithFlight(list) == Cardinality({i \in DOMAIN list : HasFlight(list[i])})
\* the names and codes the groups are keyed by are strings, where present
StringOrAbsent(v) == v.t \in {"string", "undefined", "null"}
StringNamed(list, c) ==
  \A e \in Range(list) :
    /\ StringOrAbsent(GetPath(e, <<"flight", "airport", c, "position", "country", "name">>))
    /\ StringOrAbsent(GetPath(e, <<"flight", "airport", c, "position", "country", "code">>))
    /\ StringOrAbsent(GetPath(e, <<"flight", "airport", c, "name">>))
    /\ StringOrAbsent(GetPath(e, <<"flight", "airport", c, "code", "iata">>))
DistinctKeys(groups) ==
  \A i, j \in DOMAIN groups : groups[i].key = groups[j].key => i = j

NameOrFallback(preferred, fallback, sentinel) ==
  IF preferred.t = "string" /\ preferred.s # <<>> THEN preferred.s
  ELSE IF fallback.t = "string" /\ fallback.s # <<>> THEN fallback.s
  ELSE sentinel
ClaimedCountry(e, c) ==
  NameOrFallback(GetPath(e, <<"flight", "airport", c, "position", "country", "name">>),
                 GetPath(e, <<"flight", "airport", c, "position", "country", "code">>),
                 UnknownCountry)
ClaimedCity(e, c) ==
  NameOrFallback(GetPath(e, <<"flight", "airport", c, "name">>),
                 GetPath(e, <<"flight", "airport", c, "code", "iata">>),
                 UnknownCity)
ClaimedAirline(e) ==
  NameOrFallback(GetPath(e, <<"flight", "airline", "name">>),
                 GetPath(e, <<"flight", "airline", "code", "iata">>),
                 UnknownAirline)
\* in the direction's output, e is grouped under its country and its city and
\* carries its city, country and airline
GroupedAsClaimed(e, c, out) ==
  /\ \E g \in Range(out.byCountry) :
       /\ g.key = ClaimedCountry(e, c)
       /\ \E d \in Range(g.value) :
            d.city = JsStr(ClaimedCity(e, c)) /\ d.airline = JsStr(ClaimedAirline(e))
  /\ \E g \in Range(out.byCity) :
       /\ g.key = ClaimedCity(e, c)
       /\ \E d \in Range(g.value) :
            d.country = JsStr(ClaimedCountry(e, c)) /\ d.airline = JsStr(ClaimedAirline(e))
  /\ JsStr(ClaimedAirline(e)) \in Range(out.airlines)
AllObjects(list) == \A i \in DOMAIN list : list[i].t = "object"

C9_AsStated == Finished => HasElapsedTime(sent[1])

\* C9, amended: Answered and Skipped responses and the failures sent by the
\* handler's catch block carry the time elapsed since the handler started;
\* validation failures (400) and NO_FLIGHT_DATA (404) carry none.
C9_ElapsedTime ==
  pc = "done" =>
    /\ Len(sent) = 1
    /\ IF sent[1].status = 400 \/ HasCode(sent[1], "NO_FLIGHT_DATA")
       THEN ~HasElapsedTime(sent[1])
       ELSE /\ HasElapsedTime(sent[1])
            /\ sent[1].json.metadata.responseTime = now - startTime

C9_Witness ==
  /\ Finished
  /\ sent[1].status = 504
  /\ HasElapsedTime(sent[1])
  /\ sent[1].json.metadata.responseTime = 2 * MaxDelay

Upstream404(r) == r # None /\ r.settled = "rejected" /\ r.status = 404

\* C10: when the schedule API answers 404 the Fetcher fails with a not-found
\* failure and the request ends with HTTP 404.
C10_UpstreamNotFoundIs404 ==
  ( /\ Finished
    /\ Upstream404(settled.arrivals) \/ Upstream404(settled.departures)
    /\ thrown = Thrown(ErrAirportPrefix \o body.airport.s \o ErrAirportSuffix) ) =>
    sent[1].status = 404

\* how an upstream call failed
AuthFailure(r) == r # None /\ r.settled = "rejected" /\ r.status = 401
Throttled(r) == r # None /\ r.settled = "rejected" /\ r.status = 429
QuotaExceeded(r) == r # None /\ r.settled = "rejected" /\ r.status = 402
TimedOut(r) == r # None /\ r.settled = "rejected" /\ r.code = "ECONNABORTED"
OtherTransportFailure(r) ==
  /\ r # None /\ r.settled = "rejected"
  /\ r.status \notin {401, 402, 404, 429}
  /\ r.code # "ECONNABORTED"
UpstreamFailure(r) ==
  \/ AuthFailure(r)
  \/ Throttled(r)
  \/ QuotaExceeded(r)
  \/ TimedOut(r)
  \/ OtherTransportFailure(r)

\* C11: a failure of the flight API or of the LLM that reaches the handler
\* (authentication, throttling, quota, timeout, other transport failure) is
\* reported with status 502, 429 or 504, never 500.
C11_UpstreamNever500 ==
  ( /\ Finished
    /\ \/ UpstreamFailure(settled.arrivals)
       \/ UpstreamFailure(settled.departures)
       \/ UpstreamFailure(settled.generate) ) =>
    sent[1].status \in {502, 429, 504}

\* C12: a flight-API authentication failure is answered 502 FLIGHT_API_ERROR,
\* an LLM authentication failure in generation 502 LLM_API_ERROR, throttling of
\* a schedule call or of the generation call 429 RATE_LIMIT_EXCEEDED, a timeout
\* of a schedule call or of the generation call 504 REQUEST_TIMEOUT.
C12_UpstreamCodes ==
  pc = "done" =>
    /\ Len(sent) = 1
    /\ (AuthFailure(settled.arrivals) \/ AuthFailure(settled.departures)) =>
         sent[1].status = 502 /\ HasCode(sent[1], "FLIGHT_API_ERROR")
    /\ AuthFailure(settled.generate) =>
         sent[1].status = 502 /\ HasCode(sent[1], "LLM_API_ERROR")
    /\ ( \/ Throttled(settled.arrivals)
         \/ Throttled(settled.departures)
         \/ Throttled(settled.generate) ) =>
         sent[1].status = 429 /\ HasCode(sent[1], "RATE_LIMIT_EXCEEDED")
    /\ ( \/ TimedOut(settled.arrivals)
         \/ TimedOut(settled.departures)
         \/ TimedOut(settled.generate) ) =>
         sent[1].status = 504 /\ HasCode(sent[1], "REQUEST_TIMEOUT")

C12_Witness ==
  /\ Finished
  /\ Throttled(settled.generate)
  /\ sent[1].status = 429
  /\ HasCode(sent[1], "RATE_LIMIT_EXCEEDED")

StageOrder == <<"classify", "fetch", "aggregate", "generate">>
IsPrefix(s, t) == Len(s) <= Len(t) /\ s = SubSeq(t, 1, Len(s))
Started(stage) == \E i \in DOMAIN trace : trace[i] = stage
Failed(r) == r # None /\ r.settled = "rejected"

\* C13: the stages of a request start in the order classify, fetch,
\* aggregate, generate, each at most once; the Fetcher starts only after the
\* classification call settled, the Aggregator only after a fetch that
\* returned data, the Generator only after aggregation completed, and no stage
\* starts after an earlier stage failed or ended the request.
C13_StageOrder ==
  /\ IsPrefix(trace, StageOrder)
  /\ calls.classifier = (IF Started("classify") THEN 1 ELSE 0)
  /\ calls.fetcher = (IF Started("fetch") THEN 1 ELSE 0)
  /\ calls.aggregator = (IF Started("aggregate") THEN 1 ELSE 0)
  /\ calls.generator = (IF Started("generate") THEN 1 ELSE 0)
  /\ calls.scheduleArrivals <= 1 /\ calls.scheduleDepartures <= 1
  /\ calls.scheduleArrivals + calls.scheduleDepartures > 0 => Started("fetch")
  /\ Started("fetch") => settled.classify # None /\ modeAnalysis # None /\ ~SkipResult
  /\ Started("aggregate") =>
       /\ rawFlightData # None /\ ~FetchedEmpty
       /\ ~Failed(settled.arrivals) /\ ~Failed(settled.departures)
  /\ Started("generate") => processedData # None
  /\ Failed(settled.arrivals) => calls.scheduleDepartures = 0
  /\ (Started("aggregate") /\ pc \in {"catch", "done"} /\ processedData = None) =>
       ~Started("generate")

C13_Witness ==
  /\ Finished
  /\ trace = StageOrder
  /\ sent[1].status = 200
  /\ calls.scheduleArrivals = 1 /\ calls.scheduleDepartures = 1

\* the request under a scheduler that runs every continuation whose awaited
\* call has settled
FairSpec == Spec /\ WF_vars(Next)

\* the three kinds of response
Answered(r) == r.status = 200 /\ r.json.metadata.flightApiCalled
Skipped(r) == r.status = 200 /\ ~r.json.metadata.flightApiCalled
FailedResponse(r) == r.status >= 400 /\ "code" \in DOMAIN r.json
\* an exception that is no upstream failure: the Aggregator threw, or
\* generateAnswer threw although its call resolved
AggregatorThrew == Started("aggregate") /\ processedData = None /\ thrown # None
GeneratorThrew ==
  /\ settled.generate # None /\ settled.generate.settled = "resolved"
  /\ thrown # None

\* C14: with every awaited call settling, a request eventually ends, and it
\* ends with exactly one response, an Answered, a Skipped or a Failed one; an
\* exception that is no recognised upstream failure ends it with 500
\* INTERNAL_ERROR.
C14_OneResponse ==
  /\ <>(pc = "done")
  /\ [](Len(sent) = (IF pc = "done" THEN 1 ELSE 0))
  /\ [](pc = "done" =>
          /\ Answered(sent[1]) \/ Skipped(sent[1]) \/ FailedResponse(sent[1])
          /\ (AggregatorThrew \/ GeneratorThrew) =>
               sent[1].status = 500 /\ HasCode(sent[1], "INTERNAL_ERROR"))

C14_Witness ==
  /\ Finished
  /\ AggregatorThrew
  /\ sent[1].status = 500
  /\ HasCode(sent[1], "INTERNAL_ERROR")

\* the directions the Fetcher was asked for, and the keys of its raw result
Requested(direction) ==
  /\ fetch.mode.t = "string"
  /\ fetch.mode.s \in {direction, ModeBoth}
FetchSucceeded == rawFlightData # None
RawKeys == DOMAIN rawFlightData.rawResult.f

\* C15: a successful fetch has issued exactly one schedule call for each
\* requested direction and none for the other, and its raw result has the key
\* "arrivals" exactly when arrivals were requested and the key "departures"
\* exactly when departures were requested.
C15_OneCallPerDirection ==
  FetchSucceeded =>
    /\ calls.fetcher = 1
    /\ calls.scheduleArrivals = (IF Requested(ModeArrivals) THEN 1 ELSE 0)
    /\ calls.scheduleDepartures = (IF Requested(ModeDepartures) THEN 1 ELSE 0)
    /\ ("arrivals" \in RawKeys) <=> Requested(ModeArrivals)
    /\ ("departures" \in RawKeys) <=> Requested(ModeDepartures)
    /\ RawKeys \subseteq {"arrivals", "departures"}
C15_Witness ==
  /\ FetchSucceeded
  /\ fetch.mode = JsStr(ModeBoth)
  /\ calls.scheduleArrivals = 1 /\ calls.scheduleDepartures = 1
  /\ RawKeys = {"arrivals", "departures"}

\* the reply of a schedule call that resolved without the array of flights at
\* airport.pluginData.schedule.<direction>.data
FlightArrayOf(data, direction) ==
  Get(Get(Get(Get(Get(data, "airport"), "pluginData"), "schedule"), direction), "data")
LacksPath(r, direction) ==
  /\ r # None
  /\ r.settled = "resolved"
  /\ FlightArrayOf(r.data, direction) = JsUndefined
\* every schedule call the mode asks for has resolved
RequestedCallsResolved ==
  /\ fetch # None
  /\ Requested(ModeArrivals) =>
       (settled.arrivals # None /\ settled.arrivals.settled = "resolved")
  /\ Requested(ModeDepartures) =>
       (settled.departures # None /\ settled.departures.settled = "resolved")

\* C16: when the reply of a requested schedule call lacks the nested array of
\* flights, the Fetcher does not fail on it: once all requested calls have
\* resolved it returns, with the empty list for that direction.
C16_MissingPathIsEmptyList ==
  /\ (RequestedCallsResolved /\ LacksPath(settled.arrivals, "arrivals")) =>
       (FetchSucceeded /\ rawFlightData.arrivals = JsArr(<<>>)
          /\ rawFlightData.metadata.totalArrivals = 0)
  /\ (RequestedCallsResolved /\ LacksPath(settled.departures, "departures")) =>
       (FetchSucceeded /\ rawFlightData.departures = JsArr(<<>>)
          /\ rawFlightData.metadata.totalDepartures = 0)
C16_Witness ==
  /\ FetchSucceeded
  /\ LacksPath(settled.arrivals, "arrivals")
  /\ Get(settled.arrivals.data, "airport") = JsNull
  /\ rawFlightData.arrivals = JsArr(<<>>)
  /\ Len(rawFlightData.departures.a) > 0

\* the distinct elements of a sequence, in the order of their first occurrence
RECURSIVE FirstOccurrences(_)
FirstOccurrences(s) ==
  IF s = <<>> THEN <<>>
  ELSE LET before == FirstOccurrences(SubSeq(s, 1, Len(s) - 1))
       IN IF s[Len(s)] \in Range(before) THEN before ELSE Append(before, s[Len(s)])
WithFlight(list) == SelectSeq(list, HasFlight)
KeysOf(groups) == [i \in DOMAIN groups |-> groups[i].key]
CountriesOf(list, c) ==
  LET flights == WithFlight(list) IN [i \in DOMAIN flights |-> ClaimedCountry(flights[i], c)]
CitiesOf(list, c) ==
  LET flights == WithFlight(list) IN [i \in DOMAIN flights |-> ClaimedCity(flights[i], c)]
\* every country group holds the details of its flights in the order of the list
CountryGroupsInInputOrder(groups, list, c, timeKey) ==
  \A g \in Range(groups) :
    LET mine == SelectSeq(WithFlight(list), LAMBDA e : ClaimedCountry(e, c) = g.key)
    IN g.value = [i \in DOMAIN mine |-> CountryDetail(Get(mine[i], "flight"), c, timeKey)]
CityGroupsInInputOrder(groups, list, c, timeKey) ==
  \A g \in Range(groups) :
    LET mine == SelectSeq(WithFlight(list), LAMBDA e : ClaimedCity(e, c) = g.key)
    IN g.value = [i \in DOMAIN mine |-> CityDetail(Get(mine[i], "flight"), c, timeKey)]
FirstSeenOrder(out, list, c) ==
  /\ KeysOf(out.byCountry) = FirstOccurrences(CountriesOf(list, c))
  /\ KeysOf(out.byCity) = FirstOccurrences(CitiesOf(list, c))
GroupsInInputOrder(out, list, c, timeKey) ==
  /\ CountryGroupsInInputOrder(out.byCountry, list, c, timeKey)
  /\ CityGroupsInInputOrder(out.byCity, list, c, timeKey)

\* C17 as stated: aggregating the same input again gives the same output; in
\* each grouping the keys are in the order in which each country (or city)
\* first occurs in the input list, and each group's details are in input order.
C17_FirstSeenOrder ==
  pc = "aggregated" =>
    /\ processFlightData(rawFlightData) = processedData
    /\ FirstSeenOrder(processedData.arrivals, rawFlightData.arrivals.a, "origin")
    /\ FirstSeenOrder(processedData.departures, rawFlightData.departures.a, "destination")
    /\ GroupsInInputOrder(processedData.arrivals, rawFlightData.arrivals.a,
                          "origin", "departure")
    /\ GroupsInInputOrder(processedData.departures, rawFlightData.departures.a,
                          "destination", "arrival")

\* the label the claim gives a day selector
ClaimedDayLabel(selector) ==
  IF selector = JsNum(-1) THEN LabelYesterday
  ELSE IF selector = JsNum(1) THEN LabelToday
  ELSE IF selector = JsNum(2) THEN LabelTomorrow
  ELSE LabelToday
\* the day selector getDayLabel is applied to: validDayParam, a number
DaySelector == rawFlightData.dayParam

\* C18: the day label of a result is determined by its day selector: -1 gives
\* "Yesterday", 1 "Today", 2 "Tomorrow", and every other selector, which
\* getAirportSchedule passes on as it is when it is a number other than 0,
\* gives "Today".
C18_DayLabel ==
  FetchSucceeded =>
    /\ DaySelector.t = "number" /\ ~DaySelector.nan
    /\ rawFlightData.dayLabel = ClaimedDayLabel(DaySelector)
    /\ (req.dayParam.t = "number" /\ req.dayParam.n # 0) => DaySelector = req.dayParam
C18_Witness ==
  /\ FetchSucceeded
  /\ DaySelector = JsNum(3)
  /\ rawFlightData.dayLabel = LabelToday

\* the generation call resolved and its first choice has no text, or the empty
\* text
EmptyOrAbsentText(r) ==
  /\ r # None /\ r.settled = "resolved" /\ ~NoChoices(r)
  /\ ReplyText(r) \in {JsUndefined, JsNull, JsStr(<<>>)}
\* an empty or absent generated text ends the request with 500
C19_EmptyTextFails ==
  (Finished /\ EmptyOrAbsentText(settled.generate)) =>
    (sent[1].status = 500 /\ HasCode(sent[1], "INTERNAL_ERROR"))

\* C19 as stated: an empty or absent text of the first choice ends the request
\* with 500, and no Answered response carries an empty answer.
C19_AnswerNeverEmpty ==
  /\ C19_EmptyTextFails
  /\ (Finished /\ Answered(sent[1])) =>
       (sent[1].json.answer.t = "string" /\ sent[1].json.answer.s # <<>>)

\* the handler has gone past its relevance branch
PastRelevanceBranch == modeAnalysis # None /\ pc # "classified"

\* C20: when the classification call fails, the result of the Classifier has
\* no relevance flag and no skip flag, the handler does not answer with the
\* Skipped response, and it calls the Fetcher once with mode "arrivals" (so only
\* the arrivals schedule is requested), whatever the question is.
C20_FailedClassificationFetches ==
  CallFailed(settled.classify) =>
    /\ modeAnalysis # None
    /\ DOMAIN modeAnalysis.f \cap {"relevant", "shouldSkipAPI"} = {}
    /\ PastRelevanceBranch =>
         /\ pc = "done" => ~Skipped(sent[1])
         /\ calls.fetcher = 1
         /\ fetch.mode = JsStr(ModeArrivals)
         /\ calls.scheduleArrivals = 1
         /\ calls.scheduleDepartures = 0
C20_Witness ==
  /\ CallFailed(settled.classify)
  /\ Get(req, "question") = JsStr(QuestionWeather)
  /\ PastRelevanceBranch
  /\ calls.fetcher = 1
  /\ fetch.mode = JsStr(ModeArrivals)

\* the date of the request as the client sent it, and what the handler handed
\* to getAirportSchedule
RequestDate == Get(req, "date")
HandedDay == fetch.arguments.dayParam
HandedMode == fetch.arguments.mode
DaySelectors == {JsNum(-1), JsNum(1), JsNum(2)}

\* C21: the day handed to the Fetcher is the request's date when that is -1, 1
\* or 2, and 1 when the request has no date; it is always one of -1, 1, 2; the
\* mode handed to the Fetcher is the mode of the Classifier's result.
C21_DayAndModeHandedOn ==
  fetch # None =>
    /\ RequestDate \in DaySelectors => HandedDay = RequestDate
    /\ RequestDate \in {JsUndefined, JsNull} => HandedDay = JsNum(1)
    /\ HandedDay \in DaySelectors
    /\ fetch.validDayParam = HandedDay
    /\ HandedMode = Get(modeAnalysis, "mode")
    /\ fetch.arguments.airportCode = body.airport.s
C21_Witness ==
  /\ fetch # None
  /\ RequestDate = JsNum(-1)
  /\ HandedDay = JsNum(-1)
  /\ HandedMode = JsStr(ModeDepartures)

\* the distinct countries, cities and airlines of the flights of a list
DistinctCountries(list, c) == {ClaimedCountry(e, c) : e \in Range(WithFlight(list))}
DistinctCities(list, c) == {ClaimedCity(e, c) : e \in Range(WithFlight(list))}
AirlinesSeen(out) == Range(out.arrivals.airlines) \cup Range(out.departures.airlines)

\* C22: in the summary, each direction's total is the length of its input
\* list, its country count and city count are the numbers of its country groups
\* and city groups (the distinct countries and cities of its flights), and
\* uniqueAirlines is the size of the union of the two airline sets.
C22_SummaryCounts ==
  pc = "aggregated" =>
    LET summary == processedData.summary
        arrivals == rawFlightData.arrivals.a
        departures == rawFlightData.departures.a
    IN /\ summary.totalArrivals = Len(arrivals)
       /\ summary.totalDepartures = Len(departures)
       /\ processedData.arrivals.total = Len(arrivals)
       /\ processedData.departures.total = Len(departures)
       /\ summary.arrivalCountries = Len(processedData.arrivals.byCountry)
       /\ summary.departureCountries = Len(processedData.departures.byCountry)
       /\ summary.arrivalCities = Len(processedData.arrivals.byCity)
       /\ summary.departureCities = Len(processedData.departures.byCity)
       /\ summary.arrivalCountries = Cardinality(DistinctCountries(arrivals, "origin"))
       /\ summary.departureCountries = Cardinality(DistinctCountries(departures, "destination"))
       /\ summary.arrivalCities = Cardinality(DistinctCities(arrivals, "origin"))
       /\ summary.departureCities = Cardinality(DistinctCities(departures, "destination"))
       /\ summary.uniqueAirlines = Cardinality(AirlinesSeen(processedData))
C22_Witness ==
  /\ pc = "aggregated"
  /\ JsStr(NameLufthansa) \in Range(processedData.arrivals.airlines)
  /\ JsStr(NameLufthansa) \in Range(processedData.departures.airlines)
  /\ Cardinality(AirlinesSeen(processedData)) = 2
  /\ processedData.summary.uniqueAirlines = 2
  /\ processedData.summary.totalArrivals = 2

\* the countries of the flights of a list, the number of flights of a country,
\* and the place where a country first occurs
CountryFlights(list, c, country) ==
  Cardinality({i \in DOMAIN list : HasFlight(list[i]) /\ ClaimedCountry(list[i], c) = country})
FirstSeen(list, c, country) ==
  SetMin({i \in DOMAIN list : HasFlight(list[i]) /\ ClaimedCountry(list[i], c) = country})
Listed(top) == {top[i].country : i \in DOMAIN top}
\* at most ten countries, by non-increasing count, with the sizes of their
\* groups, and no country left out that has more flights than a listed one
TopTenByCount(top, list, c) ==
  /\ Len(top) <= 10
  /\ Len(top) = Cardinality(Listed(top))
  /\ Listed(top) \subseteq DistinctCountries(list, c)
  /\ (Len(top) < 10) => Listed(top) = DistinctCountries(list, c)
  /\ \A i, j \in DOMAIN top : i < j => top[i].count >= top[j].count
  /\ \A i \in DOMAIN top : top[i].count = CountryFlights(list, c, top[i].country)
  /\ \A country \in DistinctCountries(list, c) \ Listed(top) :
       \A i \in DOMAIN top : CountryFlights(list, c, country) <= top[i].count
\* listed countries with equal counts are in the order of their first flights
TiesInFirstSeenOrder(top, list, c) ==
  \A i, j \in DOMAIN top :
    (i < j /\ top[i].count = top[j].count) =>
      FirstSeen(list, c, top[i].country) < FirstSeen(list, c, top[j].country)
AnsweredSent == pc = "done" /\ Len(sent) = 1 /\ Answered(sent[1])

\* topCountries of both directions is the ten largest country groups by count
C23_TopTenByCount ==
  AnsweredSent =>
    /\ TopTenByCount(sent[1].json.data.arrivals.topCountries,
                     rawFlightData.arrivals.a, "origin")
    /\ TopTenByCount(sent[1].json.data.departures.topCountries,
                     rawFlightData.departures.a, "destination")

\* C23 as stated: in an Answered response each direction's topCountries lists
\* at most 10 countries in non-increasing order of flight count, each count is
\* the size of the country's group, no omitted country has a larger count than
\* a listed one, and countries with equal counts keep their first-seen order.
C23_TopCountries ==
  /\ C23_TopTenByCount
  /\ AnsweredSent =>
       /\ TiesInFirstSeenOrder(sent[1].json.data.arrivals.topCountries,
                               rawFlightData.arrivals.a, "origin")
       /\ TiesInFirstSeenOrder(sent[1].json.data.departures.topCountries,
                               rawFlightData.departures.a, "destination")

\* what the schedule calls received from upstream: the payload under the key
\* of each direction whose call resolved, and the array of flights in it
UpstreamPayload ==
  JsObj([dir \in {d \in {"arrivals", "departures"} :
                    settled[d] # None /\ settled[d].settled = "resolved"}
           |-> settled[dir].data])
UpstreamList(dir) ==
  IF dir \in DOMAIN UpstreamPayload.f /\ FlightArrayOf(settled[dir].data, dir).t = "array"
  THEN FlightArrayOf(settled[dir].data, dir)
  ELSE JsArr(<<>>)
InputAsFetched ==
  /\ rawFlightData.rawResult = UpstreamPayload
  /\ rawFlightData.arrivals = UpstreamList("arrivals")
  /\ rawFlightData.departures = UpstreamList("departures")

\* C24: aggregation leaves the Fetcher's result as it was (the flat lists and
\* the raw payload are still what upstream sent), and the rawResult of the
\* Aggregator's output, which goes to the Generator and into the Answered
\* response, is that payload.
C24_InputUntouched ==
  /\ [](Started("aggregate") =>
          /\ InputAsFetched
          /\ processedData # None => processedData.rawResult = UpstreamPayload
          /\ AnsweredSent => sent[1].json.data.rawResult = UpstreamPayload)
  /\ [][rawFlightData # None => rawFlightData' = rawFlightData]_vars
C24_Witness ==
  /\ AnsweredSent
  /\ DOMAIN UpstreamPayload.f = {"arrivals", "departures"}
  /\ Len(rawFlightData.arrivals.a) = 3
  /\ InputAsFetched
  /\ sent[1].json.data.rawResult = UpstreamPayload

FetcherModes == {JsStr(ModeArrivals), JsStr(ModeDepartures), JsStr(ModeBoth)}

\* C25 as stated: whenever the handler calls the Fetcher, the mode the Fetcher
\* runs with (the mode passed, or the parameter's default when none is passed)
\* is one of arrivals, departures, both, whatever the classification reply
\* parses to.
C25_FetcherModeIsDirection ==
  fetch # None => fetch.mode \in FetcherModes

\* the rule of isValidQuestion, on the text of a question
TrimmedLength(q) == Len(trim(q))
HasQuestionWordOrMark(q) ==
  \/ \E i \in DOMAIN questionWords : includes(toLowerCase(q), questionWords[i])
  \/ "?" \in Range(q)
\* the question the handler hands to the Classifier and the Generator
HandedQuestion == body.question.s

\* what sanitisation keeps of the rule: the upper length limit and the question
\* word or question mark
C26_ShapeKept ==
  body # None =>
    /\ TrimmedLength(HandedQuestion) <= MaxQuestionLength
    /\ HasQuestionWordOrMark(HandedQuestion)

\* C26 as stated: the validated and sanitised question still satisfies the
\* validation rule: its trimmed length is between 5 and 500 and it contains a
\* question word or a question mark.
C26_SanitisedStillValid ==
  body # None =>
    /\ TrimmedLength(HandedQuestion) >= MinQuestionLength
    /\ TrimmedLength(HandedQuestion) <= MaxQuestionLength
    /\ HasQuestionWordOrMark(HandedQuestion)
    /\ isValidQuestion(body.question)

\* C27: with mode both the departures call is issued only after the arrivals
\* call has resolved; when a schedule call fails the fetch throws and returns
\* nothing, not even the data of the direction that resolved; after a failed
\* arrivals call no departures call is issued.
C27_SequentialAllOrNothing ==
  /\ (calls.scheduleDepartures > 0 /\ Requested(ModeArrivals)) =>
       (settled.arrivals # None /\ settled.arrivals.settled = "resolved")
  /\ (Failed(settled.arrivals) \/ Failed(settled.departures)) =>
       (pc = "catch" /\ thrown # None /\ rawFlightData = None)
  /\ Failed(settled.arrivals) =>
       (calls.scheduleDepartures = 0 /\ settled.departures = None)
  /\ calls.scheduleArrivals <= 1 /\ calls.scheduleDepartures <= 1
C27_Witness ==
  /\ fetch # None
  /\ fetch.mode = JsStr(ModeBoth)
  /\ settled.arrivals # None /\ settled.arrivals.settled = "resolved"
  /\ Len(UpstreamList("arrivals").a) = 3
  /\ Failed(settled.departures)
  /\ pc = "catch"
  /\ rawFlightData = None

\* C28: the loading period App is in is that of the query sent last, and the
\* timeout whose callback runs in a step is the one the step removes
LoadingPeriod == Sent
SamePeriod == app.loading /\ app'.loading /\ LoadingPeriod' = LoadingPeriod
FiredTimeout == timers[NextTimeout]
TimeoutRan == Len(timers') < Len(timers)

\* C28 (first half): within one loading period currentStep never decreases
C28_StepNeverDecreases ==
  [][SamePeriod => app'.currentStep >= app.currentStep]_vars

\* C28: within one loading period (loading true from one submit until its
\* request completes) currentStep never decreases, and it changes only when a
\* timeout set for that period runs, whatever the interleaving of completions,
\* new submits and timeouts, those of earlier requests included
C28_StepsOfThisPeriod ==
  [][SamePeriod =>
       /\ app'.currentStep >= app.currentStep
       /\ app'.currentStep # app.currentStep =>
            TimeoutRan /\ FiredTimeout.request = LoadingPeriod]_vars

\* C29: whenever App is not loading, currentStep is 0 and the loading message
\* is the initial one, also after timeouts of a finished request have run
C29_IdleShowsNoStep ==
  ~app.loading => app.currentStep = 0 /\ app.loadingMessage = "Preparing your request..."

\* C29 happens: the only request was answered before the welcome toast (due at
\* 1000 ms) appeared, and its step-2 timeout (due at 1500 ms) has run since
C29_Witness ==
  /\ ~app.loading
  /\ Sent = 1
  /\ app.result = QueryAnswer
  /\ toast = "Welcome to Flight Assistant AI"
  /\ \A i \in DOMAIN timers : timers[i].step # 2

\* C30: what a settled query may hand to the submit event: response.data of a
\* 2xx answer, or an object whose error is the message of the failure
SubmitPayloads ==
  {QueryAnswer, JsNull}
  \cup {JsObj([error |-> JsStr(m)]) :
          m \in {<<"N","e","t","w","o","r","k"," ","e","r","r","o","r","."," ","P","l","e","a","s","e"," ","c","h","e","c","k"," ","y","o","u","r"," ","i","n","t","e","r","n","e","t"," ","c","o","n","n","e","c","t","i","o","n",".">>,
                 <<"A","i","r","p","o","r","t"," ","c","o","d","e"," ","i","s"," ","r","e","q","u","i","r","e","d">>}}
FormPasses ==
  /\ form.selectedAirport # <<>>
  /\ Len(trim(form.question)) >= 5
  /\ Len(trim(form.question)) <= 500
\* the events of the k-th query, in the order they were emitted
EventsOf(k) == SelectSeq(emitted, LAMBDA e : e.request = k)
LoadingEvent(e, isLoading) == e.name = "loading" /\ e.arg = JsBool(isLoading)
SubmitEvent(e) == e.name = "submit" /\ e.arg \in SubmitPayloads
Completed(k) ==
  \E es \in {EventsOf(k)} :
    /\ Len(es) = 3
    /\ LoadingEvent(es[1], TRUE)
    /\ SubmitEvent(es[2])
    /\ LoadingEvent(es[3], FALSE)
Pending(k) ==
  \E es \in {EventsOf(k)} : Len(es) = 1 /\ LoadingEvent(es[1], TRUE)
\* a step in which handleSubmit rejected the form
RejectedSubmit ==
  toast' = "Form Validation" /\ (toast' # toast \/ form'.errors # form.errors)

\* C30: every query FlightForm sends has emitted loading(true), then, once the
\* request has settled, exactly one submit event (response.data, or an object
\* with the error's message) and then loading(false); loading is true exactly
\* while the request is pending; a query is sent only from a form that passes
\* validation, and a submit that fails validation emits nothing and sends nothing
C30_SubmitProtocol ==
  /\ [](/\ \A e \in Range(emitted) : e.request \in 1..Sent
        /\ \A k \in 1..Sent :
             IF request # None /\ request.id = k THEN Pending(k) ELSE Completed(k)
        /\ form.loading = (request # None)
        /\ app.loading = (request # None))
  /\ [][/\ request' # request /\ request' # None => FormPasses /\ Len(emitted') = Len(emitted) + 1
        /\ RejectedSubmit => ~FormPasses /\ emitted' = emitted /\ request' = request]_vars

\* C30 happens: one query was answered, a second failed on the network, and a
\* third submit was rejected for its question
C30_Witness ==
  /\ Sent = 2
  /\ request = None
  /\ emitted[2].arg = QueryAnswer
  /\ emitted[5].arg = JsObj([error |-> JsStr(MsgNetworkError)])
  /\ DOMAIN form.errors = {"question"}
  /\ toast = "Form Validation"

====
